---- MODULE Spec2Model ----
(***************************************************************************)
(* Workflow execution-lifecycle engine of SHENJI:                          *)
(*   - WorkflowValidator   (workflow/WorkflowValidator.ts)                 *)
(*   - ExecutionHistoryStorage (workflow/ExecutionHistory.ts)              *)
(*   - RollbackManager / ResumeManager (workflow/AdvancedFeatures.ts)      *)
(*                                                                         *)
(*   - RetryManager        (workflow/AdvancedFeatures.ts)                  *)
(*   - ExecutionMonitor    (workflow/ExecutionMonitor.ts)                  *)
(*                                                                         *)
(* The specifications share the variables:                                 *)
(*   SpecValidate, SpecSchema : validate() applied to a workflow drawn     *)
(*                              from a bounded set of definitions          *)
(*   Spec                     : the recorder and the recovery operations   *)
(*   SpecNodeExecutions       : recordings of node executions              *)
(*   SpecRollback             : rollback applied to any stored record      *)
(*   SpecRollbackSteps        : the same, one await of rollback at a time  *)
(*   SpecResume               : rollback, resume and getResumeContext on   *)
(*                              any stored record of a three-node workflow *)
(*   SpecRetry                : executeWithRetry                           *)
(*   SpecMonitor              : the monitor of one execution               *)
(*   SpecProgress             : getProgress of any monitored execution     *)
(*   SpecLogs, SpecSampler    : the log buffer and the sampler of the      *)
(*                              monitor, with two executions               *)
(*   SpecRollbackFaults       : rollback with a failing write and a        *)
(*                              recording between its awaits               *)
(*   SpecListeners            : the monitor heard by listeners and         *)
(*                              subscribers, some of which throw           *)
(*   SpecStore                : save, get and delete of the storage with   *)
(*                              its files and its cache                    *)
(*   SpecCancel               : create and cancel of the controller        *)
(*   SpecIsolation            : calls for one execution while another is   *)
(*                              operated on and the cache is full          *)
(*   SpecWriteFaults          : changes of a record whose write fails      *)
(*   SpecRollbackPoints       : the rollback points and the validation of  *)
(*                              a rollback, on any running record          *)
(*   SpecResumeRace,                                                       *)
(*   SpecResumeOneByOne       : resume one await at a time, against a      *)
(*                              second resume and a status update          *)
(*   SpecRollbackHookFaults   : rollback whose awaited hook rejects        *)
(*   SpecRetryFair,                                                        *)
(*   SpecRetryErrorsFair      : executeWithRetry whose operation settles   *)
(*                              and whose timers fire                      *)
(***************************************************************************)
EXTENDS Integers, Sequences, FiniteSets, TLC

(***************************************************************************)
(* Bounds of the model                                                     *)
(***************************************************************************)
\* nodes of a workflow definition
MaxNodes == 3
\* edges of a workflow definition
MaxEdges == 3
\* largest value of the clock (Date.now()); the clock starts at 1
MaxTime == 2
\* checkpoints stored in one execution record
MaxCheckpoints == 2
\* rollback notes in one node record's logs
MaxLogs == 1
\* largest maxAttempts of a retry configuration
MaxAttempts == 4
\* largest stats.totalNodes of a record monitored while node statuses change
MaxMonitored == 2
\* ticks of the performance sampler
MaxTicks == 2
\* most addLog calls on one monitored execution
MaxLogCalls == 1002
\* largest stats.totalNodes, and most node statuses known, where only the
\* progress is read
MaxProgressNodes == 10

VARIABLES
  wf,        \* validator: the workflow definition passed to validate()
  vpc,       \* validator: "input" before the call, then "returned" or "threw"
  vres,      \* validator: the WorkflowValidationResult validate() returned
  exists,    \* recorder: ids of the execution records in the store
  records,   \* recorder: the stored WorkflowExecutionRecord of each id
  now,       \* the clock read by Date.now()
  ret,       \* what the latest call returned
  rb,        \* rollback manager: the rollback call that is between two awaits
  rt,        \* retry manager: the executeWithRetry call
  mon,       \* monitor: the entry of each execution in activeExecutions
  emitted,   \* monitor: the events the latest monitor call emitted, in order
  sampler,   \* monitor: the tick of the performance sampler that is under way
  bus,       \* monitor: its listeners and subscribers, and what the last call
             \* delivered to each
  disk,      \* storage: the text of the file of each execution id
  cache,     \* storage: the keys of its cache, in order, with their objects
  heap,      \* the record objects
  calls,     \* storage: its calls that are between two awaits or have returned
  held       \* monitor: the record object its entry of each id refers to

vvars == <<wf, vpc, vres>>
rvars == <<exists, records, now, ret>>
\* the rollback call in steps, the retry manager and the monitor
xvars == <<rb, rt, mon, emitted>>
zvars == <<disk, cache, heap, calls, held>>
yvars == <<sampler, bus, zvars>>
vars ==
  <<wf, vpc, vres, exists, records, now, ret, rb, rt, mon, emitted, sampler, bus,
    disk, cache, heap, calls, held>>

(***************************************************************************)
(* WorkflowValidator                                                       *)
(*                                                                         *)
(* A workflow is [missing, nodes, edges].  missing is the set of fields    *)
(* (id, name, version, nodes, edges) that are absent; for nodes and edges  *)
(* it also stands for a value that is not an array.  nodes is the list of  *)
(* node ids and edges a list of [source, target, enabled] (each <<>> when  *)
(* the field is missing).  An edge's id is its position in the list.  Node *)
(* ids are drawn from NodeIds and compared for equality only, so the node  *)
(* list is taken as 1..k and every order of listing is covered by the edge *)
(* lists over those ids.  An edge endpoint is a listed node or k+1, an id  *)
(* no listed node has.  Node type, position, config and the optional       *)
(* settings are well formed.                                               *)
(***************************************************************************)
NodeIds == 1..MaxNodes
EndpointIds(k) == 1..(IF k < MaxNodes THEN k + 1 ELSE k)

SeqsUpTo(S, n) == UNION {[1..m -> S] : m \in 0..n}

EdgeSet(k) == [source : EndpointIds(k), target : EndpointIds(k), enabled : BOOLEAN]

Range(s) == {s[i] : i \in 1..Len(s)}

\* adjacency map of detectCycles / calculateMaxDepth: only edges with
\* enabled !== false, targets in edge order; an id without entry reads as []
BuildAdjacency(edges) ==
  [id \in NodeIds |->
     LET out == SelectSeq(edges, LAMBDA e : e.enabled /\ e.source = id)
     IN  [i \in 1..Len(out) |-> out[i].target]]

\* path.indexOf(x)
IndexOf(path, x) == CHOOSE i \in 1..Len(path) : path[i] = x /\ \A j \in 1..(i-1) : path[j] # x

RECURSIVE dfsCycle(_, _, _, _)
RECURSIVE dfsCycleLoop(_, _, _, _, _)
\* the closure dfs of detectCycles; st = [visited, recursionStack, cycles]
dfsCycle(adjacency, nodeId, path, st) ==
  LET st1 == [st EXCEPT !.visited = @ \cup {nodeId}, !.recursionStack = @ \cup {nodeId}]
      path1 == Append(path, nodeId)
      st2 == dfsCycleLoop(adjacency, nodeId, path1, 1, st1)
  IN  [st2 EXCEPT !.recursionStack = @ \ {nodeId}]

dfsCycleLoop(adjacency, nodeId, path, i, st) ==
  IF i > Len(adjacency[nodeId]) THEN st
  ELSE LET neighbor == adjacency[nodeId][i]
       IN  IF neighbor \notin st.visited
             THEN dfsCycleLoop(adjacency, nodeId, path, i + 1,
                               dfsCycle(adjacency, neighbor, path, st))
           ELSE IF neighbor \in st.recursionStack
             THEN dfsCycleLoop(adjacency, nodeId, path, i + 1,
                    [st EXCEPT !.cycles =
                       Append(@, Append(SubSeq(path, IndexOf(path, neighbor), Len(path)),
                                        neighbor))])
           ELSE dfsCycleLoop(adjacency, nodeId, path, i + 1, st)

RECURSIVE detectCyclesFrom(_, _, _, _)
detectCyclesFrom(adjacency, nodes, i, st) ==
  IF i > Len(nodes) THEN st
  ELSE IF nodes[i] \notin st.visited
    THEN detectCyclesFrom(adjacency, nodes, i + 1, dfsCycle(adjacency, nodes[i], <<>>, st))
  ELSE detectCyclesFrom(adjacency, nodes, i + 1, st)

\* a depth-first search started at the first listed node only
detectCyclesFirstRootOnly(nodes, edges) ==
  detectCyclesFrom(BuildAdjacency(edges), SubSeq(nodes, 1, 1), 1,
                   [visited |-> {}, recursionStack |-> {}, cycles |-> <<>>]).cycles

detectCycles(nodes, edges) ==
  detectCyclesFrom(BuildAdjacency(edges), nodes, 1,
                   [visited |-> {}, recursionStack |-> {}, cycles |-> <<>>]).cycles

\* errors/warnings pushed while iterating a list: the concatenation, in
\* order, of what each position of the list pushes
RECURSIVE PushFrom(_, _)
PushFrom(pushed, i) ==
  IF i > Len(pushed) THEN <<>> ELSE pushed[i] \o PushFrom(pushed, i + 1)

PushAll(pushed) == PushFrom(pushed, 1)

Err(code, field) == [code |-> code, field |-> field]

validateSchemaErrors(workflow) ==
     (IF "id" \in workflow.missing THEN <<Err("MISSING_FIELD", "id")>> ELSE <<>>)
  \o (IF "name" \in workflow.missing THEN <<Err("MISSING_FIELD", "name")>> ELSE <<>>)
  \o (IF "version" \in workflow.missing THEN <<Err("MISSING_FIELD", "version")>> ELSE <<>>)
  \o (IF "nodes" \in workflow.missing THEN <<Err("INVALID_SCHEMA", "nodes")>> ELSE <<>>)
  \o (IF "edges" \in workflow.missing THEN <<Err("INVALID_SCHEMA", "edges")>> ELSE <<>>)

validateNodesErrors(nodes) ==
  PushAll([i \in 1..Len(nodes) |->
    IF \E j \in 1..(i - 1) : nodes[j] = nodes[i]
      THEN <<Err("DUPLICATE_NODE_ID", "")>> ELSE <<>>])

validateEdgesErrors(edges, nodes) ==
  LET nodeIds == Range(nodes)
  IN  PushAll([i \in 1..Len(edges) |->
           (IF edges[i].source \notin nodeIds
              THEN <<Err("INVALID_SOURCE_NODE", "")>> ELSE <<>>)
        \o (IF edges[i].target \notin nodeIds
              THEN <<Err("INVALID_TARGET_NODE", "")>> ELSE <<>>)
        \o (IF edges[i].source = edges[i].target
              THEN <<Err("SELF_LOOP", "")>> ELSE <<>>)])

validateEdgesWarnings(edges) ==
  PushAll([i \in 1..Len(edges) |->
    IF \E j \in 1..Len(edges) :
         j # i /\ edges[j].source = edges[i].source /\ edges[j].target = edges[i].target
      THEN <<"DUPLICATE_CONNECTION">> ELSE <<>>])

nodesWithInputs(edges) == {edges[i].target : i \in 1..Len(edges)}
nodesWithOutputs(edges) == {edges[i].source : i \in 1..Len(edges)}

validateTopologyErrors(nodes, edges) ==
  IF Len(nodes) = 0 THEN <<>>
  ELSE LET cycles == detectCycles(nodes, edges)
       IN  [i \in 1..Len(cycles) |-> Err("CIRCULAR_DEPENDENCY", "")]

validateTopologyWarnings(nodes, edges) ==
  IF Len(nodes) = 0 THEN <<"EMPTY_WORKFLOW">>
  ELSE LET withInputs == nodesWithInputs(edges)
           withOutputs == nodesWithOutputs(edges)
       IN     PushAll([i \in 1..Len(nodes) |->
                IF nodes[i] \notin withInputs /\ nodes[i] \notin withOutputs
                  THEN <<"ISOLATED_NODE">> ELSE <<>>])
           \o (IF \A i \in 1..Len(nodes) : nodes[i] \in withInputs
                 THEN <<"NO_START_NODE">> ELSE <<>>)
           \o (IF \A i \in 1..Len(nodes) : nodes[i] \in withOutputs
                 THEN <<"NO_END_NODE">> ELSE <<>>)

RECURSIVE dfsDepth(_, _, _)
RECURSIVE dfsDepthLoop(_, _, _, _, _)
\* the closure dfs of calculateMaxDepth; st = [memo, visiting]; the value is
\* [depth, st]
dfsDepth(adjacency, nodeId, st) ==
  IF nodeId \in DOMAIN st.memo THEN [depth |-> st.memo[nodeId], st |-> st]
  ELSE IF nodeId \in st.visiting THEN [depth |-> 0, st |-> st]
  ELSE LET st1 == [st EXCEPT !.visiting = @ \cup {nodeId}]
       IN  IF Len(adjacency[nodeId]) = 0
             THEN [depth |-> 1,
                   st |-> [memo |-> (nodeId :> 1) @@ st1.memo,
                           visiting |-> st1.visiting \ {nodeId}]]
           ELSE LET r == dfsDepthLoop(adjacency, nodeId, 1, 0, st1)
                    depth == 1 + r.depth
                IN  [depth |-> depth,
                     st |-> [memo |-> (nodeId :> depth) @@ r.st.memo,
                             visiting |-> r.st.visiting \ {nodeId}]]

dfsDepthLoop(adjacency, nodeId, i, maxChildDepth, st) ==
  IF i > Len(adjacency[nodeId]) THEN [depth |-> maxChildDepth, st |-> st]
  ELSE LET r == dfsDepth(adjacency, adjacency[nodeId][i], st)
       IN  dfsDepthLoop(adjacency, nodeId, i + 1,
                        IF r.depth > maxChildDepth THEN r.depth ELSE maxChildDepth, r.st)

RECURSIVE maxDepthFrom(_, _, _, _, _)
maxDepthFrom(adjacency, nodes, i, maxDepth, st) ==
  IF i > Len(nodes) THEN maxDepth
  ELSE IF nodes[i] \notin DOMAIN st.memo
    THEN LET r == dfsDepth(adjacency, nodes[i], st)
         IN  maxDepthFrom(adjacency, nodes, i + 1,
                          IF r.depth > maxDepth THEN r.depth ELSE maxDepth, r.st)
  ELSE maxDepthFrom(adjacency, nodes, i + 1, maxDepth, st)

\* a depth that counts the edges of the longest chain, not its nodes
calculateMaxDepthCountingEdges(nodes, edges) ==
  IF Len(nodes) = 0 THEN 0
  ELSE IF Len(detectCycles(nodes, edges)) > 0 THEN 0
  ELSE maxDepthFrom(BuildAdjacency(edges), nodes, 1, 0,
                    [memo |-> <<>>, visiting |-> {}]) - 1

calculateMaxDepth(nodes, edges) ==
  IF Len(nodes) = 0 THEN 0
  ELSE IF Len(detectCycles(nodes, edges)) > 0 THEN 0
  ELSE maxDepthFrom(BuildAdjacency(edges), nodes, 1, 0,
                    [memo |-> <<>>, visiting |-> {}])

calculateStats(nodes, edges) ==
  LET withInputs == nodesWithInputs(edges)
      withOutputs == nodesWithOutputs(edges)
  IN  [totalNodes |-> Len(nodes),
       totalEdges |-> Len(edges),
       startNodes |-> Cardinality({i \in 1..Len(nodes) : nodes[i] \notin withInputs}),
       endNodes   |-> Cardinality({i \in 1..Len(nodes) : nodes[i] \notin withOutputs}),
       maxDepth   |-> calculateMaxDepth(nodes, edges)]

EmptyResult ==
  [valid |-> FALSE, errors |-> <<>>, warnings |-> <<>>,
   stats |-> [totalNodes |-> 0, totalEdges |-> 0, startNodes |-> 0, endNodes |-> 0,
              maxDepth |-> 0]]

\* validate() iterates workflow.nodes in validateNodes and workflow.edges in
\* validateEdges: on a value that is not an array the iteration raises a
\* TypeError, which nothing in validate() catches
validateThrows(workflow) == "nodes" \in workflow.missing \/ "edges" \in workflow.missing

validate(workflow) ==
  LET errors ==    validateSchemaErrors(workflow)
                \o validateNodesErrors(workflow.nodes)
                \o validateEdgesErrors(workflow.edges, workflow.nodes)
                \o validateTopologyErrors(workflow.nodes, workflow.edges)
      warnings ==    validateEdgesWarnings(workflow.edges)
                  \o validateTopologyWarnings(workflow.nodes, workflow.edges)
  IN  [valid |-> Len(errors) = 0,
       errors |-> errors,
       warnings |-> warnings,
       stats |-> calculateStats(workflow.nodes, workflow.edges)]

(***************************************************************************)
(* ExecutionHistoryStorage                                                 *)
(*                                                                         *)
(* A WorkflowExecutionRecord is [status, startTime, endTime, duration,     *)
(* nodes, stats, checkpoints]; endTime and duration are NoTime while       *)
(* undefined, stats.successRate is the numerator completedNodes of the     *)
(* rate last computed (NoRate while undefined).  A NodeExecutionRecord is  *)
(* [nodeId, status, logs], logs being the number of log lines.  A          *)
(* checkpoint is [nodeId, timestamp].  The trigger, the context, the error *)
(* object and updatedAt are carried along unread and are left out.         *)
(***************************************************************************)
ExecIds == {"e1"}

PENDING == "pending"
RUNNING == "running"
COMPLETED == "completed"
FAILED == "failed"
CANCELLED == "cancelled"
PAUSED == "paused"
SKIPPED == "skipped"

ExecutionStatus == {PENDING, RUNNING, COMPLETED, FAILED, CANCELLED, PAUSED}
NodeExecutionStatus == {PENDING, RUNNING, COMPLETED, FAILED, SKIPPED}
TerminalStatus == {COMPLETED, FAILED, CANCELLED}

NoTime == 0 - 1
NoRate == 0 - 1

NoRecord ==
  [status |-> PENDING, startTime |-> NoTime, endTime |-> NoTime, duration |-> NoTime,
   nodes |-> <<>>,
   stats |-> [totalNodes |-> 0, completedNodes |-> 0, failedNodes |-> 0,
              skippedNodes |-> 0, successRate |-> NoRate],
   checkpoints |-> <<>>]

NoContext == [checkpointNodeId |-> "", resumeFromNode |-> "", skippedNodes |-> <<>>]
\* what a call returned.  op is "rollback" or "resume" for a RollbackResult
\* or a resume result and "void" for a call that returns nothing; threw is
\* set when the call raised an Error instead of returning; hooks lists the
\* nodes rollbackNode was invoked on, in invocation order
Void == [op |-> "void", threw |-> FALSE, success |-> TRUE, error |-> "",
         rolledBackTo |-> "", affectedNodes |-> <<>>, hooks |-> <<>>,
         context |-> NoContext]
Threw == [Void EXCEPT !.threw = TRUE, !.success = FALSE, !.error = "Execution record not found"]

\* nodes.findIndex(n => n.nodeId === nodeId), 0 for -1
FindIndex(nodes, nodeId) ==
  IF \E i \in 1..Len(nodes) : nodes[i].nodeId = nodeId
    THEN CHOOSE i \in 1..Len(nodes) :
           nodes[i].nodeId = nodeId /\ \A j \in 1..(i - 1) : nodes[j].nodeId # nodeId
    ELSE 0

CountStatus(nodes, status) == Cardinality({i \in 1..Len(nodes) : nodes[i].status = status})

\* createExecution: the record built from workflow (totalNodes nodes) at now
NewRecord(totalNodes, t) ==
  [status |-> PENDING, startTime |-> t, endTime |-> NoTime, duration |-> NoTime,
   nodes |-> <<>>,
   stats |-> [totalNodes |-> totalNodes, completedNodes |-> 0, failedNodes |-> 0,
              skippedNodes |-> 0, successRate |-> NoRate],
   checkpoints |-> <<>>]

\* the record updateStatus saves
WithStatus(record, status, t) ==
  LET r1 == [record EXCEPT !.status = status]
      r2 == IF status = RUNNING /\ r1.startTime = NoTime
              THEN [r1 EXCEPT !.startTime = t] ELSE r1
      r3 == IF status \in TerminalStatus
              THEN [r2 EXCEPT !.endTime = t, !.duration = t - r2.startTime] ELSE r2
  IN  IF r3.stats.totalNodes > 0
        THEN [r3 EXCEPT !.stats.successRate = r3.stats.completedNodes] ELSE r3

\* an upsert that moves a replaced record to the end of the list
UpsertMoveToEnd(nodes, nodeRecord) ==
  Append(SelectSeq(nodes, LAMBDA n : n.nodeId # nodeRecord.nodeId), nodeRecord)

\* the node list after the upsert of addNodeExecution
Upsert(nodes, nodeRecord) ==
  LET existingIndex == FindIndex(nodes, nodeRecord.nodeId)
  IN  IF existingIndex >= 1 THEN [nodes EXCEPT ![existingIndex] = nodeRecord]
      ELSE Append(nodes, nodeRecord)

\* the record addNodeExecution saves
WithNodeExecution(record, nodeRecord) ==
  LET nodes == Upsert(record.nodes, nodeRecord)
  IN  [record EXCEPT !.nodes = nodes,
                     !.stats.completedNodes = CountStatus(nodes, COMPLETED),
                     !.stats.failedNodes = CountStatus(nodes, FAILED),
                     !.stats.skippedNodes = CountStatus(nodes, SKIPPED)]

\* a checkpoint put in front of the list
WithCheckpointPrepended(record, nodeId, t) ==
  [record EXCEPT !.checkpoints = <<[nodeId |-> nodeId, timestamp |-> t]>> \o @]

\* the record addCheckpoint saves
WithCheckpoint(record, nodeId, t) ==
  [record EXCEPT !.checkpoints = Append(@, [nodeId |-> nodeId, timestamp |-> t])]

Save(id, record) == records' = [records EXCEPT ![id] = record]

CreateExecution(id, totalNodes) ==
  /\ id \notin exists
  /\ exists' = exists \cup {id}
  /\ Save(id, NewRecord(totalNodes, now))
  /\ ret' = Void
  /\ UNCHANGED now

UpdateStatus(id, status) ==
  /\ IF id \notin exists
       THEN ret' = Threw /\ UNCHANGED <<exists, records, now>>
       ELSE /\ Save(id, WithStatus(records[id], status, now))
            /\ ret' = Void
            /\ UNCHANGED <<exists, now>>

AddNodeExecution(id, nodeRecord) ==
  /\ IF id \notin exists
       THEN ret' = Threw /\ UNCHANGED <<exists, records, now>>
       ELSE /\ Save(id, WithNodeExecution(records[id], nodeRecord))
            /\ ret' = Void
            /\ UNCHANGED <<exists, now>>

AddCheckpoint(id, nodeId) ==
  /\ IF id \notin exists
       THEN ret' = Threw /\ UNCHANGED <<exists, records, now>>
       ELSE /\ Len(records[id].checkpoints) < MaxCheckpoints
            /\ Save(id, WithCheckpoint(records[id], nodeId, now))
            /\ ret' = Void
            /\ UNCHANGED <<exists, now>>

(***************************************************************************)
(* RollbackManager and ResumeManager                                       *)
(***************************************************************************)
\* a checkpoint lookup that finds a checkpoint for every node id
HasCheckpointAlways(record, nodeId) == TRUE

HasCheckpoint(record, nodeId) ==
  \E i \in 1..Len(record.checkpoints) : record.checkpoints[i].nodeId = nodeId

\* the hooks in the order the nodes were executed
InExecutionOrder(s) == s

Reverse(s) == [i \in 1..Len(s) |-> s[Len(s) + 1 - i]]

NodeIdsOf(nodes) == [i \in 1..Len(nodes) |-> nodes[i].nodeId]

\* nodesToRollback = record.nodes.slice(targetNodeIndex + 1)
NodesToRollback(record, targetNodeIndex) ==
  SubSeq(record.nodes, targetNodeIndex + 1, Len(record.nodes))

\* the removed ids read after the in-place reversal
AffectedNodeIdsReversed(record, targetNodeIndex) ==
  Reverse(NodeIdsOf(NodesToRollback(record, targetNodeIndex)))

\* affectedNodeIds = nodesToRollback.map(n => n.nodeId), taken before the
\* list is reversed in place
AffectedNodeIds(record, targetNodeIndex) ==
  NodeIdsOf(NodesToRollback(record, targetNodeIndex))

\* the record rollback saves: truncated to the target inclusive, paused, a
\* note appended to the target's logs
RolledBack(record, targetNodeIndex) ==
  LET kept == SubSeq(record.nodes, 1, targetNodeIndex)
  IN  [record EXCEPT !.nodes = [kept EXCEPT ![targetNodeIndex].logs = @ + 1],
                     !.status = PAUSED]

RollbackFailure(targetNodeId, error) ==
  [Void EXCEPT !.op = "rollback", !.success = FALSE, !.rolledBackTo = targetNodeId,
               !.error = error]

Rollback(id, targetNodeId) ==
  /\ UNCHANGED <<exists, now>>
  /\ IF id \notin exists
       THEN ret' = RollbackFailure(targetNodeId, "EXECUTION_NOT_FOUND") /\ UNCHANGED records
     ELSE IF ~HasCheckpoint(records[id], targetNodeId)
       THEN ret' = RollbackFailure(targetNodeId, "CHECKPOINT_NOT_FOUND") /\ UNCHANGED records
     ELSE IF FindIndex(records[id].nodes, targetNodeId) = 0
       THEN ret' = RollbackFailure(targetNodeId, "NODE_NOT_FOUND") /\ UNCHANGED records
     ELSE LET targetNodeIndex == FindIndex(records[id].nodes, targetNodeId)
          IN  /\ records[id].nodes[targetNodeIndex].logs < MaxLogs
              /\ Save(id, RolledBack(records[id], targetNodeIndex))
              /\ ret' = [Void EXCEPT
                           !.op = "rollback",
                           !.rolledBackTo = targetNodeId,
                           !.affectedNodes = AffectedNodeIds(records[id], targetNodeIndex),
                           !.hooks = Reverse(NodeIdsOf(NodesToRollback(records[id],
                                                                      targetNodeIndex)))]

\* a resume that accepts paused records only
canResumePausedOnly(record) == record.status = PAUSED

\* a resume that accepts a record of any status
canResumeAnyStatus(record) == TRUE

canResume(record) == record.status = PAUSED \/ record.status = FAILED

\* index of the last COMPLETED node record, 0 if there is none
LastCompletedIndex(nodes) ==
  IF \E i \in 1..Len(nodes) : nodes[i].status = COMPLETED
    THEN CHOOSE i \in 1..Len(nodes) :
           nodes[i].status = COMPLETED /\ \A j \in (i + 1)..Len(nodes) : nodes[j].status # COMPLETED
    ELSE 0

getResumeContext(record) ==
  LET last == LastCompletedIndex(record.nodes)
  IN  IF last = 0
        THEN [checkpointNodeId |-> "",
              resumeFromNode |-> IF Len(record.nodes) > 0 THEN record.nodes[1].nodeId ELSE "",
              skippedNodes |-> <<>>]
        ELSE LET lastNodeIndex == FindIndex(record.nodes, record.nodes[last].nodeId)
             IN  [checkpointNodeId |-> record.nodes[last].nodeId,
                  resumeFromNode |-> IF lastNodeIndex + 1 <= Len(record.nodes)
                                       THEN record.nodes[lastNodeIndex + 1].nodeId ELSE "",
                  skippedNodes |-> NodeIdsOf(SelectSeq(record.nodes,
                                                       LAMBDA n : n.status = COMPLETED))]

\* resumeManager.getResumeContext(id) called on its own: null for an unknown
\* id, else the context
GetResumeContext(id) ==
  /\ ret' = IF id \notin exists
              THEN [Void EXCEPT !.op = "getResumeContext", !.success = FALSE]
              ELSE [Void EXCEPT !.op = "getResumeContext",
                                !.context = getResumeContext(records[id])]
  /\ UNCHANGED <<exists, records, now>>

Resume(id) ==
  /\ UNCHANGED <<exists, now>>
  /\ IF id \notin exists \/ ~canResume(records[id])
       THEN ret' = [Void EXCEPT !.op = "resume", !.success = FALSE,
                                 !.error = "CANNOT_RESUME"]
            /\ UNCHANGED records
       ELSE /\ Save(id, WithStatus(records[id], RUNNING, now))
            /\ ret' = [Void EXCEPT !.op = "resume",
                                   !.context = getResumeContext(records[id])]

\* time passes between two calls
Tick ==
  /\ now < MaxTime
  /\ now' = now + 1
  /\ UNCHANGED <<exists, records, ret>>

(***************************************************************************)
(* RollbackManager.rollback, one await at a time                           *)
(***************************************************************************)
\* no rollback call is between two awaits
NoRollback ==
  [pc |-> "idle", id |-> "", targetNodeId |-> "", targetNodeIndex |-> 0,
   nodesToRollback |-> <<>>, affectedNodeIds |-> <<>>, invoked |-> <<>>]

\* the result rollback returns on success
RollbackSuccess(targetNodeId, affectedNodeIds, invoked) ==
  [Void EXCEPT !.op = "rollback", !.rolledBackTo = targetNodeId,
               !.affectedNodes = affectedNodeIds, !.hooks = invoked]

\* rollback from its call to its first await inside the loop over the hooks:
\* the record is read and the three checks are made; with no node after the
\* target there is no hook to await and the record is updated and saved at
\* once; otherwise nodesToRollback is reversed in place and the hook of its
\* first node is invoked
RollbackBegin(id, targetNodeId) ==
  /\ rb.pc = "idle"
  /\ UNCHANGED <<exists, now>>
  /\ IF id \notin exists
       THEN ret' = RollbackFailure(targetNodeId, "EXECUTION_NOT_FOUND")
            /\ UNCHANGED <<records, rb>>
     ELSE IF ~HasCheckpoint(records[id], targetNodeId)
       THEN ret' = RollbackFailure(targetNodeId, "CHECKPOINT_NOT_FOUND")
            /\ UNCHANGED <<records, rb>>
     ELSE IF FindIndex(records[id].nodes, targetNodeId) = 0
       THEN ret' = RollbackFailure(targetNodeId, "NODE_NOT_FOUND")
            /\ UNCHANGED <<records, rb>>
     ELSE LET targetNodeIndex == FindIndex(records[id].nodes, targetNodeId)
              affectedNodeIds == AffectedNodeIds(records[id], targetNodeIndex)
              nodesToRollback == Reverse(NodeIdsOf(NodesToRollback(records[id],
                                                                   targetNodeIndex)))
          IN  /\ records[id].nodes[targetNodeIndex].logs < MaxLogs
              /\ IF Len(nodesToRollback) = 0
                   THEN /\ Save(id, RolledBack(records[id], targetNodeIndex))
                        /\ ret' = RollbackSuccess(targetNodeId, affectedNodeIds, <<>>)
                        /\ UNCHANGED rb
                   ELSE /\ rb' = [pc |-> "hooks", id |-> id, targetNodeId |-> targetNodeId,
                                  targetNodeIndex |-> targetNodeIndex,
                                  nodesToRollback |-> nodesToRollback,
                                  affectedNodeIds |-> affectedNodeIds,
                                  invoked |-> <<nodesToRollback[1]>>]
                        /\ UNCHANGED <<records, ret>>

\* the hook awaited has completed and the hook of the next node is invoked
RollbackHook ==
  /\ rb.pc = "hooks"
  /\ Len(rb.invoked) < Len(rb.nodesToRollback)
  /\ rb' = [rb EXCEPT !.invoked = Append(@, rb.nodesToRollback[Len(rb.invoked) + 1])]
  /\ UNCHANGED <<exists, records, now, ret>>

\* the last hook has completed: the record is truncated, paused, noted and
\* saved, and rollback returns
RollbackFinish ==
  /\ rb.pc = "hooks"
  /\ Len(rb.invoked) = Len(rb.nodesToRollback)
  /\ Save(rb.id, RolledBack(records[rb.id], rb.targetNodeIndex))
  /\ ret' = RollbackSuccess(rb.targetNodeId, rb.affectedNodeIds, rb.invoked)
  /\ rb' = NoRollback
  /\ UNCHANGED <<exists, now>>

(***************************************************************************)
(* RetryManager                                                            *)
(*                                                                         *)
(* A RetryConfig is [maxAttempts, backoffStrategy, initialDelay, maxDelay, *)
(* retryableErrors]; retryableErrors is the set of its entries, the empty  *)
(* set standing for an absent list as well.  The operation rejects with an *)
(* Error: [code, mentions], mentions being the entries its message         *)
(* contains as substrings.  The call is followed from await to await: pc   *)
(* is "attempt" while the operation is awaited, "sleeping" while the       *)
(* backoff timer runs and "returned" once the result is there.             *)
(* invocations counts the calls of the operation, sleeps lists the delays  *)
(* slept, errors the attempts that pushed an error message.  The duration  *)
(* of the result is left out.                                              *)
(***************************************************************************)
BackoffStrategies == {"linear", "exponential", "fixed"}
InitialDelays == {500, 1000}
MaxDelays == {1500, 10000}
RetryableErrorLists == {{}, {"TIMEOUT"}, {"TIMEOUT", "503"}}

RetryConfigs ==
  [maxAttempts : 0..MaxAttempts, backoffStrategy : BackoffStrategies,
   initialDelay : InitialDelays, maxDelay : MaxDelays,
   retryableErrors : RetryableErrorLists]

\* the errors the operation rejects with
OperationErrors == [code : {"TIMEOUT", "EINVAL"}, mentions : {{}, {"503"}}]

NoResult == [success |-> FALSE, attempts |-> 0, finalStatus |-> PENDING]

NoConfig ==
  [maxAttempts |-> 0, backoffStrategy |-> "fixed", initialDelay |-> 0, maxDelay |-> 0,
   retryableErrors |-> {}]

NoRetry ==
  [pc |-> "idle", config |-> NoConfig, attempt |-> 0, invocations |-> 0,
   sleeps |-> <<>>, errors |-> <<>>, result |-> NoResult]

Min(a, b) == IF a <= b THEN a ELSE b

RECURSIVE Pow2(_)
\* Math.pow(2, n)
Pow2(n) == IF n <= 0 THEN 1 ELSE 2 * Pow2(n - 1)

\* a delay that is not clamped to maxDelay
calculateDelayUnclamped(attempt, config) ==
  CASE config.backoffStrategy = "linear" -> config.initialDelay * attempt
    [] config.backoffStrategy = "exponential" -> config.initialDelay * Pow2(attempt - 1)
    [] OTHER -> config.initialDelay

calculateDelay(attempt, config) ==
  LET delay == CASE config.backoffStrategy = "linear" -> config.initialDelay * attempt
                 [] config.backoffStrategy = "exponential"
                      -> config.initialDelay * Pow2(attempt - 1)
                 [] OTHER -> config.initialDelay
  IN  Min(delay, config.maxDelay)

\* every error is taken as retryable
isRetryableAlways(error, config) == TRUE

\* config.retryableErrors.some(code => error.code === code ||
\*                                     error.message.includes(code))
isRetryable(error, config) ==
  \E code \in config.retryableErrors : error.code = code \/ code \in error.mentions

\* a result that reports the loop counter after the loop
ExhaustedPastTheEnd(config) ==
  [success |-> FALSE, attempts |-> config.maxAttempts + 1, finalStatus |-> FAILED]

\* the result after the loop: every attempt failed, or there was none
Exhausted(config) ==
  [success |-> FALSE, attempts |-> config.maxAttempts, finalStatus |-> FAILED]

\* the first attempt follows the call at once; the loop body is not entered
\* when maxAttempts < 1
RetryCall(config) ==
  /\ rt.pc = "idle"
  /\ rt' = IF 1 <= config.maxAttempts
             THEN [rt EXCEPT !.pc = "attempt", !.config = config, !.attempt = 1,
                             !.invocations = 1]
             ELSE [rt EXCEPT !.pc = "returned", !.config = config, !.attempt = 1,
                             !.result = Exhausted(config)]

\* the operation awaited resolves
OperationSucceeds ==
  /\ rt.pc = "attempt"
  /\ rt' = [rt EXCEPT !.pc = "returned",
                      !.result = [success |-> TRUE, attempts |-> rt.attempt,
                                  finalStatus |-> COMPLETED]]

\* the operation awaited rejects with error
OperationFails(error) ==
  /\ rt.pc = "attempt"
  /\ LET pushed == [rt EXCEPT !.errors = Append(@, rt.attempt)]
     IN  rt' = IF rt.config.retryableErrors # {} /\ ~isRetryable(error, rt.config)
                 THEN [pushed EXCEPT !.pc = "returned",
                                     !.result = [success |-> FALSE,
                                                 attempts |-> rt.attempt,
                                                 finalStatus |-> FAILED]]
               ELSE IF rt.attempt < rt.config.maxAttempts
                 THEN [pushed EXCEPT !.pc = "sleeping",
                                     !.sleeps = Append(@, calculateDelay(rt.attempt,
                                                                         rt.config))]
               ELSE [pushed EXCEPT !.pc = "returned", !.attempt = rt.attempt + 1,
                                   !.result = Exhausted(rt.config)]

\* the backoff timer fires and the next attempt starts
SleepEnds ==
  /\ rt.pc = "sleeping"
  /\ rt' = [rt EXCEPT !.pc = "attempt", !.attempt = @ + 1, !.invocations = @ + 1]

(***************************************************************************)
(* ExecutionMonitor                                                        *)
(*                                                                         *)
(* mon[id] is the entry of id in activeExecutions, active telling whether  *)
(* the map has one.  Of the record monitored, the status and               *)
(* stats.totalNodes are kept.  nodeStatuses is the Map of last-known       *)
(* statuses: a function whose domain is the set of keys.  emitted lists    *)
(* the events the latest call passed to emitEvent, in order, each with its *)
(* type, execution id and data.  No listener is registered that throws.    *)
(* progress and estimatedTimeRemaining are fractions in lowest terms.       *)
(* A log is [executionId, message], the message being a number that tells  *)
(* the logs apart.                                                         *)
(***************************************************************************)
EXECUTION_STARTED == "execution:started"
EXECUTION_UPDATED == "execution:updated"
EXECUTION_COMPLETED == "execution:completed"
EXECUTION_FAILED == "execution:failed"
EXECUTION_CANCELLED == "execution:cancelled"
NODE_STARTED == "node:started"
NODE_COMPLETED == "node:completed"
NODE_FAILED == "node:failed"
NODE_SKIPPED == "node:skipped"
PROGRESS_UPDATED == "progress:updated"
PERFORMANCE_UPDATED == "performance:updated"
LOG_ADDED == "log:added"

\* entries kept in the log buffer of an execution
LogCapacity == 1000
\* samples kept in the metrics buffer of an execution
MetricsCapacity == 100

\* new Map()
EmptyMap == [n \in {} |-> PENDING]

\* map.get(key), "undefined" for no entry
MapGet(map, key) == IF key \in DOMAIN map THEN map[key] ELSE "undefined"

\* map.set(key, value)
MapSet(map, key, value) ==
  [k \in DOMAIN map \cup {key} |-> IF k = key THEN value ELSE map[k]]

\* Array.from(map.values()).filter(s => s === status).length
CountValues(map, status) == Cardinality({k \in DOMAIN map : map[k] = status})

MonitoredRecord(status, totalNodes) == [status |-> status, totalNodes |-> totalNodes]

NoEntry ==
  [active |-> FALSE, record |-> MonitoredRecord(PENDING, 0), startTime |-> NoTime,
   nodeStatuses |-> EmptyMap, logs |-> <<>>, metrics |-> <<>>, position |-> 0]

\* the entry startMonitoring sets: position is the rank of the key in the
\* iteration order of activeExecutions
NewEntry(record, t, position) ==
  [active |-> TRUE, record |-> record, startTime |-> t, nodeStatuses |-> EmptyMap,
   logs |-> <<>>, metrics |-> <<>>, position |-> position]

\* the keys of activeExecutions
ActiveIds == {id \in DOMAIN mon : mon[id].active}

Max(a, b) == IF a >= b THEN a ELSE b

\* s.slice(-k) for k > 0
SliceLast(s, k) == SubSeq(s, Max(Len(s) - k, 0) + 1, Len(s))

\* s.slice(0, k)
SliceFirst(s, k) == SubSeq(s, 1, Min(Len(s), k))

\* a buffer that keeps its oldest capacity entries
PushKeepingOldest(buffer, entry, capacity) ==
  IF Len(buffer) + 1 > capacity THEN SliceFirst(Append(buffer, entry), capacity)
  ELSE Append(buffer, entry)

\* buffer.push(entry); if (buffer.length > capacity) buffer = buffer.slice(-capacity)
Push(buffer, entry, capacity) ==
  IF Len(buffer) + 1 > capacity THEN SliceLast(Append(buffer, entry), capacity)
  ELSE Append(buffer, entry)

NoMonitor == [id \in ExecIds |-> NoEntry]

RECURSIVE GCD(_, _)
GCD(a, b) == IF b = 0 THEN a ELSE GCD(b, a % b)

\* a / b for naturals a and b > 0
Divide(a, b) == [num |-> a \div GCD(a, b), den |-> b \div GCD(a, b)]

Zero == [num |-> 0, den |-> 1]

\* p * k for a fraction p and an integer k
Times(p, k) == Divide(p.num * k, p.den)

\* an estimatedTimeRemaining that is undefined
NoEstimate == [defined |-> FALSE, num |-> 0, den |-> 1]

Estimate(p) == [defined |-> TRUE, num |-> p.num, den |-> p.den]

\* an estimate given whenever a node has completed
estimateAtAnyProgress(elapsed, completedNodes, totalNodes, progress) ==
  IF completedNodes > 0
    THEN Estimate(Times(Divide(elapsed, completedNodes), totalNodes - completedNodes))
  ELSE NoEstimate

\* estimatedTimeRemaining of getProgress: avgTimePerNode * remainingNodes
estimateTimeRemaining(elapsed, completedNodes, totalNodes, progress) ==
  IF completedNodes > 0 /\ progress.num < progress.den
    THEN Estimate(Times(Divide(elapsed, completedNodes), totalNodes - completedNodes))
  ELSE NoEstimate

\* a progress that counts every node with a known status as done
getProgressOfKnownNodes(id) ==
  LET execution == mon[id]
      totalNodes == execution.record.totalNodes
      known == Cardinality(DOMAIN execution.nodeStatuses)
  IN  [executionId |-> id, totalNodes |-> totalNodes, completedNodes |-> known,
       failedNodes |-> 0, runningNodes |-> 0, pendingNodes |-> totalNodes - known,
       progress |-> IF totalNodes > 0 THEN Divide(known, totalNodes) ELSE Zero,
       estimatedTimeRemaining |-> NoEstimate]

\* getProgress of a monitored execution
getProgress(id) ==
  LET execution == mon[id]
      totalNodes == execution.record.totalNodes
      completedNodes == CountValues(execution.nodeStatuses, COMPLETED)
      failedNodes == CountValues(execution.nodeStatuses, FAILED)
      runningNodes == CountValues(execution.nodeStatuses, RUNNING)
      progress == IF totalNodes > 0 THEN Divide(completedNodes, totalNodes) ELSE Zero
  IN  [executionId |-> id, totalNodes |-> totalNodes, completedNodes |-> completedNodes,
       failedNodes |-> failedNodes, runningNodes |-> runningNodes,
       pendingNodes |-> totalNodes - completedNodes - failedNodes - runningNodes,
       progress |-> progress,
       estimatedTimeRemaining |->
         estimateTimeRemaining(now - execution.startTime, completedNodes, totalNodes,
                               progress)]

MonitorEvent(type, id, data) == [type |-> type, executionId |-> id, data |-> data]

\* the switch of updateNodeStatus, "" for its default branch
NodeEventType(status) ==
  CASE status = RUNNING -> NODE_STARTED
    [] status = COMPLETED -> NODE_COMPLETED
    [] status = FAILED -> NODE_FAILED
    [] status = SKIPPED -> NODE_SKIPPED
    [] OTHER -> ""

StartMonitoring(id, record) ==
  /\ mon' = [mon EXCEPT ![id] =
                NewEntry(record, now,
                         IF mon[id].active THEN mon[id].position
                         ELSE Cardinality(ActiveIds) + 1)]
  /\ emitted' = <<MonitorEvent(EXECUTION_STARTED, id, record)>>
  /\ ret' = [op |-> "startMonitoring"]

StopMonitoring(id) ==
  /\ ret' = [op |-> "stopMonitoring"]
  /\ IF ~mon[id].active
       THEN emitted' = <<>> /\ UNCHANGED mon
     ELSE LET record == mon[id].record
              eventType == CASE record.status = COMPLETED -> EXECUTION_COMPLETED
                             [] record.status = FAILED -> EXECUTION_FAILED
                             [] record.status = CANCELLED -> EXECUTION_CANCELLED
                             [] OTHER -> EXECUTION_UPDATED
          IN  /\ mon' = [j \in DOMAIN mon |->
                            IF j = id THEN NoEntry
                            ELSE IF mon[j].position > mon[id].position
                              THEN [mon[j] EXCEPT !.position = @ - 1]
                            ELSE mon[j]]
              /\ emitted' = <<MonitorEvent(eventType, id, record)>>

UpdateNodeStatus(id, nodeId, status) ==
  /\ ret' = [op |-> "updateNodeStatus"]
  /\ IF ~mon[id].active
       THEN emitted' = <<>> /\ UNCHANGED mon
     ELSE LET previousStatus == MapGet(mon[id].nodeStatuses, nodeId)
          IN  /\ mon' = [mon EXCEPT ![id].nodeStatuses = MapSet(@, nodeId, status)]
              /\ emitted' =
                   IF previousStatus = status \/ NodeEventType(status) = ""
                     THEN <<>>
                   ELSE <<MonitorEvent(NodeEventType(status), id,
                                       [nodeId |-> nodeId, status |-> status]),
                          MonitorEvent(PROGRESS_UPDATED, id, getProgress(id)')>>

\* an addLog that does not look whether the execution is monitored
AddLogToAny(log) ==
  LET id == log.executionId
  IN  /\ ret' = [op |-> "addLog"]
      /\ mon' = [mon EXCEPT ![id].logs = Push(@, log, LogCapacity)]
      /\ emitted' = <<MonitorEvent(LOG_ADDED, id, log)>>

\* the log the caller adds next: its message follows that of the newest
\* log in the buffer
NextLog(id) ==
  [executionId |-> id,
   message |-> IF mon[id].logs = <<>> THEN 1
               ELSE mon[id].logs[Len(mon[id].logs)].message + 1]

AddLog(log) ==
  LET id == log.executionId
  IN  /\ ret' = [op |-> "addLog"]
      /\ IF ~mon[id].active
           THEN emitted' = <<>> /\ UNCHANGED mon
         ELSE /\ mon' = [mon EXCEPT ![id].logs = Push(@, log, LogCapacity)]
              /\ emitted' = <<MonitorEvent(LOG_ADDED, id, log)>>

\* getLogs(id, limit); limit 0 stands for a call without limit as well
GetLogs(id, limit) ==
  /\ ret' = [op |-> "getLogs", limit |-> limit,
             value |-> IF ~mon[id].active THEN <<>>
                       ELSE IF limit > 0 THEN SliceLast(mon[id].logs, limit)
                       ELSE mon[id].logs]
  /\ emitted' = <<>>
  /\ UNCHANGED mon

\* no tick of the sampler is under way
NoTick == [running |-> FALSE, sampled |-> {}, ticks |-> 0]

\* what collectPerformanceMetrics pushes; the readings of the process are
\* left out
Sample(id) ==
  [executionId |-> id, timestamp |-> now, duration |-> now - mon[id].startTime]

\* an iterator that yields the deleted keys as well
ToSampleDeletedKeysToo == {id \in DOMAIN mon : id \notin sampler.sampled}

\* the keys the iterator of activeExecutions.keys() has still to yield: keys
\* come in insertion order, a deleted key is not yielded, a key set anew is
\* yielded at the end
ToSample == {id \in ActiveIds : id \notin sampler.sampled}

\* the next key the iterator yields
NextToSample ==
  CHOOSE id \in ToSample : \A j \in ToSample : mon[id].position <= mon[j].position

\* the interval fires: the loop over the keys starts
SamplerTick ==
  /\ ~sampler.running
  /\ sampler' = [running |-> TRUE, sampled |-> {}, ticks |-> sampler.ticks + 1]
  /\ emitted' = <<>>
  /\ UNCHANGED <<mon, ret>>

\* one turn of the loop: collectPerformanceMetrics of the next key
CollectPerformanceMetrics ==
  /\ sampler.running
  /\ ToSample # {}
  /\ LET id == NextToSample
         metrics == Sample(id)
     IN  /\ mon' = [mon EXCEPT ![id].metrics = Push(@, metrics, MetricsCapacity)]
         /\ emitted' = <<MonitorEvent(PERFORMANCE_UPDATED, id, metrics)>>
         /\ sampler' = [sampler EXCEPT !.sampled = @ \cup {id}]
  /\ UNCHANGED ret

\* the iterator is exhausted
SamplerTickEnds ==
  /\ sampler.running
  /\ ToSample = {}
  /\ sampler' = [sampler EXCEPT !.running = FALSE, !.sampled = {}]
  /\ emitted' = <<>>
  /\ UNCHANGED <<mon, ret>>

\* a key deleted from the map is forgotten by the iterator
Deregistered(id) == sampler' = [sampler EXCEPT !.sampled = @ \ {id}]

(***************************************************************************)
(* ExecutionHistoryStorage with its files, its cache and the record        *)
(* objects                                                                 *)
(*                                                                         *)
(* disk[id] is the text of the file of id, heap[r] the record object r,    *)
(* cache the Map of the storage in the order of its keys.  A call of the   *)
(* storage runs in a slot of calls from await to await: "reading" while    *)
(* fs.readFile is awaited, "writing" while fs.writeFile is, "unlinking"    *)
(* while fs.unlink is, "done" once it has returned with calls[h].result.   *)
(* A slot serves one call, and the object a call creates (the literal of   *)
(* createExecution, the value of JSON.parse) is named after its slot.      *)
(* held[id] is the object the entry of id in the monitor refers to.        *)
(* The keys of other executions are kept in the cache as runs: an element  *)
(* with id "" stands for n consecutive keys that no call here reads.       *)
(***************************************************************************)
\* the capacity of the cache
maxCacheSize == 100

Slots == {"h1", "h2", "h3", "h4"}
NoRef == ""
\* what fs.readFile finds where there is no file
NoFile == [code |-> "ENOENT"]
\* no record object
NoObject == [none |-> TRUE]

\* values of a field typed any: undefined, a string, NaN, a Date
Undefined == "undefined"
AnyValues == {Undefined, "text", "NaN", "Date(0)"}

\* what JSON.stringify writes for a value: null for NaN, the ISO string of
\* a Date; a property that is undefined is left out and reads as undefined
\* after JSON.parse
JsonValue(v) ==
  CASE v = "NaN" -> "null"
    [] v = "Date(0)" -> "1970-01-01T00:00:00.000Z"
    [] OTHER -> v

\* JSON.stringify(record): the other fields hold strings, finite numbers,
\* arrays and plain objects, which are written as they are
Stringify(record) == [record EXCEPT !.data = JsonValue(@)]

\* JSON.parse of a text JSON.stringify wrote
Parse(content) == content

\* the record createExecution builds, trigger.data being data
NewStoredRecord(totalNodes, t, data) ==
  NewRecord(totalNodes, t) @@ [data |-> data, updatedAt |-> t]

CacheEntry(id, ref) == [id |-> id, ref |-> ref, n |-> 1]
OtherKeys(n) == [id |-> "", ref |-> NoRef, n |-> n]

RECURSIVE CacheSize(_)
CacheSize(c) == IF c = <<>> THEN 0 ELSE c[1].n + CacheSize(Tail(c))

CacheHas(c, id) == \E i \in 1..Len(c) : c[i].id = id
CacheGet(c, id) == c[CHOOSE i \in 1..Len(c) : c[i].id = id].ref

\* neighbouring runs of other keys joined
RECURSIVE Merged(_)
Merged(c) ==
  IF Len(c) < 2 THEN c
  ELSE IF c[1].id = "" /\ c[2].id = ""
    THEN Merged(<<OtherKeys(c[1].n + c[2].n)>> \o SubSeq(c, 3, Len(c)))
  ELSE <<c[1]>> \o Merged(Tail(c))

\* cache.delete(cache.keys().next().value)
DeleteFirst(c) ==
  IF c = <<>> THEN c
  ELSE IF c[1].n > 1 THEN [c EXCEPT ![1].n = @ - 1]
  ELSE Tail(c)

\* cache.delete(id)
CacheDelete(c, id) == Merged(SelectSeq(c, LAMBDA e : e.id # id))

\* cache.set(id, record): a key the Map has keeps its place
CacheSet(c, id, ref) ==
  IF CacheHas(c, id)
    THEN [i \in 1..Len(c) |-> IF c[i].id = id THEN CacheEntry(id, ref) ELSE c[i]]
  ELSE Append(c, CacheEntry(id, ref))

\* updateCache(id, record)
updateCache(c, id, ref) ==
  CacheSet(IF CacheSize(c) >= maxCacheSize THEN DeleteFirst(c) ELSE c, id, ref)

\* the cache without its first e keys
RECURSIVE DropKeys(_, _)
DropKeys(c, e) ==
  IF e = 0 \/ c = <<>> THEN c
  ELSE IF c[1].n > e THEN [c EXCEPT ![1].n = @ - e]
  ELSE DropKeys(Tail(c), e - c[1].n)

\* updateCache called k times, each time with a new key of another
\* execution: the keys are set at the end, and each call that finds
\* maxCacheSize keys deletes the first key before
OthersSaved(c, k) ==
  LET size == CacheSize(c)
      evicted == IF size + k > maxCacheSize THEN size + k - maxCacheSize ELSE 0
  IN  Merged(DropKeys(c \o <<OtherKeys(k)>>, evicted))

\* what a call of the storage returned: null, an Error thrown, the boolean of
\* delete, or the record
NoReturn == [isNull |-> TRUE, threw |-> FALSE, deleted |-> FALSE, value |-> NoObject]

\* no call in the slot; after is the set of the calls that had returned
\* when the call of the slot was made
NoCall ==
  [pc |-> "idle", op |-> "", id |-> "", ref |-> NoRef, content |-> NoFile,
   arg |-> NoObject, after |-> {}, result |-> NoReturn]

Returned == {h \in Slots : calls[h].pc = "done"}

InitStore ==
  /\ disk = [id \in ExecIds |-> NoFile]
  /\ cache = <<>>
  /\ heap = [r \in Slots |-> NoObject]
  /\ calls = [h \in Slots |-> NoCall]
  /\ held = [id \in ExecIds |-> NoRef]

\* the calls that get the record, change it and save it
Mutators == {"updateStatus", "addNodeExecution", "addCheckpoint"}

\* the change such a call makes to the record it got
Mutate(op, arg, record, t) ==
  IF op = "updateStatus" THEN WithStatus(record, arg.status, t)
  ELSE IF op = "addCheckpoint" THEN WithCheckpoint(record, arg.checkpoint, t)
  ELSE WithNodeExecution(record, arg)

\* save(record) up to its await: the timestamp is set on the object
Saved(record, t) == [record EXCEPT !.updatedAt = t]

\* the call returns
Return(h, call, result) ==
  calls' = [calls EXCEPT ![h] = [call EXCEPT !.pc = "done", !.result = result]]

\* save(record) is passed the object r and awaits the write of its text
AwaitWrite(h, call, r) ==
  calls' = [calls EXCEPT ![h] = [call EXCEPT !.pc = "writing", !.ref = r,
                                              !.content = Stringify(heap'[r])]]

\* a call op(id, arg) of the storage is made in slot h and runs to its first
\* await on the file system; "save" is save of a record object built by the
\* caller from arg, as createExecution does
Call(h, op, id, arg) ==
  /\ calls[h].pc = "idle"
  /\ UNCHANGED <<disk, cache>>
  /\ LET call == [NoCall EXCEPT !.op = op, !.id = id, !.arg = arg, !.after = Returned]
     IN  IF op = "save"
           THEN /\ heap' = [heap EXCEPT ![h] = Saved(arg, now)]
                /\ AwaitWrite(h, call, h)
         ELSE IF op = "delete"
           THEN /\ calls' = [calls EXCEPT ![h] = [call EXCEPT !.pc = "unlinking"]]
                /\ UNCHANGED heap
         ELSE IF ~CacheHas(cache, id)
           THEN /\ calls' = [calls EXCEPT ![h] = [call EXCEPT !.pc = "reading"]]
                /\ UNCHANGED heap
         ELSE LET r == CacheGet(cache, id)
              IN  IF op = "get"
                    THEN /\ Return(h, call, [NoReturn EXCEPT !.isNull = FALSE,
                                                              !.value = heap[r]])
                         /\ UNCHANGED heap
                  ELSE /\ heap' = [heap EXCEPT ![r] = Saved(Mutate(op, arg, @, now), now)]
                       /\ AwaitWrite(h, call, r)

\* fs.readFile of get has completed: ENOENT gives null, and the callers
\* that change the record throw on null; otherwise the text is parsed into
\* a new object, which is cached and returned
ReadDone(h) ==
  LET call == calls[h]
  IN  /\ call.pc = "reading"
      /\ UNCHANGED disk
      /\ IF disk[call.id] = NoFile
           THEN /\ Return(h, call, [NoReturn EXCEPT !.threw = call.op \in Mutators])
                /\ UNCHANGED <<cache, heap>>
         ELSE /\ cache' = updateCache(cache, call.id, h)
              /\ IF call.op = "get"
                   THEN /\ heap' = [heap EXCEPT ![h] = Parse(disk[call.id])]
                        /\ Return(h, call, [NoReturn EXCEPT !.isNull = FALSE,
                                                             !.value = heap'[h]])
                 ELSE /\ heap' = [heap EXCEPT ![h] =
                                    Saved(Mutate(call.op, call.arg, Parse(disk[call.id]),
                                                 now), now)]
                      /\ AwaitWrite(h, call, h)

\* fs.writeFile of save has completed: the object is cached and the call
\* returns
WriteDone(h) ==
  LET call == calls[h]
  IN  /\ call.pc = "writing"
      /\ disk' = [disk EXCEPT ![call.id] = call.content]
      /\ cache' = updateCache(cache, call.id, call.ref)
      /\ Return(h, call, [NoReturn EXCEPT !.isNull = FALSE])
      /\ UNCHANGED heap

\* fs.unlink of delete has completed: true and the key leaves the cache,
\* or ENOENT and false
UnlinkDone(h) ==
  LET call == calls[h]
  IN  /\ call.pc = "unlinking"
      /\ UNCHANGED heap
      /\ IF disk[call.id] = NoFile
           THEN /\ Return(h, call, [NoReturn EXCEPT !.isNull = FALSE])
                /\ UNCHANGED <<disk, cache>>
         ELSE /\ disk' = [disk EXCEPT ![call.id] = NoFile]
              /\ cache' = CacheDelete(cache, call.id)
              /\ Return(h, call, [NoReturn EXCEPT !.isNull = FALSE, !.deleted = TRUE])

\* k records of other executions are saved, one after the other; the runs
\* followed are those that fill the cache
OtherExecutions(k) ==
  /\ CacheSize(cache) + k >= maxCacheSize
  /\ cache' = OthersSaved(cache, k)
  /\ UNCHANGED <<disk, heap, calls>>

\* what get(id) would return now
Stored(id) ==
  IF CacheHas(cache, id) THEN heap[CacheGet(cache, id)]
  ELSE IF disk[id] = NoFile THEN NoObject
  ELSE Parse(disk[id])

(***************************************************************************)
(* Listeners of the monitor and subscribers of the broadcaster             *)
(*                                                                         *)
(* The monitor is an EventEmitter: emitEvent emits the event under its     *)
(* type and then under 'event'.  The handler of the broadcaster is the     *)
(* first listener of 'event' (it is registered when the module is loaded)  *)
(* and passes the event to the subscribers of the execution id and then to *)
(* those of '*', each call in a try/catch.  bus.registered are the         *)
(* listeners and subscribers registered, bus.throwing those that throw     *)
(* when called, bus.received the events each was called with during the    *)
(* latest call of the monitor.                                             *)
(***************************************************************************)
\* the type the listeners registered by type listen to
ListenedType == NODE_COMPLETED
\* listeners registered with on(ListenedType, ...), in this order
TypeListeners == <<"t1", "t2">>
\* listeners registered with on('event', ...), after the broadcaster
GenericListeners == <<"g1">>
\* the callbacks subscribed under each key of the broadcaster, in the order
\* of their subscription
SubscribersOf(key) ==
  CASE key = "e1" -> <<"s1", "s2">>
    [] key = "e2" -> <<"sx">>
    [] key = "*" -> <<"w1">>
    [] OTHER -> <<>>

ListenerNames == {"t1", "t2", "g1", "s1", "s2", "sx", "w1"}

NoDelivery == [l \in ListenerNames |-> <<>>]
NoBus == [registered |-> {}, throwing |-> {}, received |-> NoDelivery]

Registered(listeners) == SelectSeq(listeners, LAMBDA l : l \in bus.registered)

Throws(listeners) == \E i \in 1..Len(listeners) : listeners[i] \in bus.throwing

\* EventEmitter.emit: the listeners are called in the order of their
\* registration, and the first that throws ends the call with its error
Called(listeners) ==
  IF Throws(listeners)
    THEN SubSeq(listeners, 1,
                CHOOSE i \in 1..Len(listeners) :
                  /\ listeners[i] \in bus.throwing
                  /\ \A j \in 1..(i - 1) : listeners[j] \notin bus.throwing)
  ELSE listeners

\* broadcast(key, event): every callback subscribed under key is called,
\* what it throws is caught and logged
broadcast(key) == Registered(SubscribersOf(key))

\* emitEvent(event): who is called, and whether the call throws
emitEvent(event) ==
  LET onType == Registered(IF event.type = ListenedType THEN TypeListeners ELSE <<>>)
      handler == broadcast(event.executionId) \o broadcast("*")
      onEvent == Registered(GenericListeners)
  IN  IF Throws(onType)
        THEN [called |-> Called(onType), threw |-> TRUE]
      ELSE [called |-> onType \o handler \o Called(onEvent), threw |-> Throws(onEvent)]

\* the emitEvent calls of one call of the monitor, from the i-th on: the
\* first that throws ends the call of the monitor
RECURSIVE EmitFrom(_, _, _)
EmitFrom(events, i, received) ==
  IF i > Len(events)
    THEN [emitted |-> events, threw |-> FALSE, received |-> received]
  ELSE LET r == emitEvent(events[i])
           withEvent == [l \in ListenerNames |->
                           IF l \in Range(r.called) THEN Append(received[l], events[i])
                           ELSE received[l]]
       IN  IF r.threw
             THEN [emitted |-> SubSeq(events, 1, i), threw |-> TRUE,
                   received |-> withEvent]
           ELSE EmitFrom(events, i + 1, withEvent)

\* a call op of the monitor that leaves activeExecutions as entries and
\* then passes events to emitEvent one after the other
Emitting(op, entries, events) ==
  /\ mon' = entries
  /\ LET d == EmitFrom(events, 1, NoDelivery)
     IN  /\ emitted' = d.emitted
         /\ ret' = [op |-> op, threw |-> d.threw]
         /\ bus' = [bus EXCEPT !.received = d.received]

StartMonitoringHeard(id, record) ==
  Emitting("startMonitoring",
           [mon EXCEPT ![id] =
              NewEntry(record, now,
                       IF mon[id].active THEN mon[id].position
                       ELSE Cardinality(ActiveIds) + 1)],
           <<MonitorEvent(EXECUTION_STARTED, id, record)>>)

StopMonitoringHeard(id) ==
  IF ~mon[id].active
    THEN Emitting("stopMonitoring", mon, <<>>)
  ELSE LET record == mon[id].record
           eventType == CASE record.status = COMPLETED -> EXECUTION_COMPLETED
                          [] record.status = FAILED -> EXECUTION_FAILED
                          [] record.status = CANCELLED -> EXECUTION_CANCELLED
                          [] OTHER -> EXECUTION_UPDATED
       IN  Emitting("stopMonitoring",
                    [j \in DOMAIN mon |->
                       IF j = id THEN NoEntry
                       ELSE IF mon[j].position > mon[id].position
                         THEN [mon[j] EXCEPT !.position = @ - 1]
                       ELSE mon[j]],
                    <<MonitorEvent(eventType, id, record)>>)

UpdateNodeStatusHeard(id, nodeId, status) ==
  IF ~mon[id].active
    THEN Emitting("updateNodeStatus", mon, <<>>)
  ELSE LET previousStatus == MapGet(mon[id].nodeStatuses, nodeId)
       IN  Emitting("updateNodeStatus",
                    [mon EXCEPT ![id].nodeStatuses = MapSet(@, nodeId, status)],
                    IF previousStatus = status \/ NodeEventType(status) = ""
                      THEN <<>>
                    ELSE <<MonitorEvent(NodeEventType(status), id,
                                        [nodeId |-> nodeId, status |-> status]),
                           MonitorEvent(PROGRESS_UPDATED, id, getProgress(id)')>>)

InitMore == sampler = NoTick /\ bus = NoBus /\ InitStore

\* getProgress(id): null for an execution that is not monitored
GetProgress(id) ==
  /\ ret' = [op |-> "getProgress", isNull |-> ~mon[id].active,
             value |-> IF mon[id].active THEN getProgress(id) ELSE Zero]
  /\ emitted' = <<>>
  /\ UNCHANGED mon

(***************************************************************************)
(* validate() applied to a workflow definition                             *)
(***************************************************************************)
NodeList(k) == [i \in 1..k |-> i]

NoWorkflow == [missing |-> {}, nodes |-> <<>>, edges |-> <<>>]

\* well-formed header, every graph within the bounds
GraphWorkflow(w) ==
  \E k \in 0..MaxNodes, m \in 0..MaxEdges :
    \E e \in [1..m -> EdgeSet(k)] :
      w = [missing |-> {}, nodes |-> NodeList(k), edges |-> e]

\* every combination of missing fields, over graphs of at most one edge
SchemaWorkflow(w) ==
  \E k \in 0..MaxNodes, m \in SUBSET {"id", "name", "version", "nodes", "edges"} :
    \E e \in SeqsUpTo(EdgeSet(k), 1) :
      w = [missing |-> m,
           nodes |-> IF "nodes" \in m THEN <<>> ELSE NodeList(k),
           edges |-> IF "edges" \in m THEN <<>> ELSE e]

\* validator.validate(wf)
Validate ==
  /\ vpc = "input"
  /\ IF validateThrows(wf)
       THEN vpc' = "threw" /\ vres' = EmptyResult
       ELSE vpc' = "returned" /\ vres' = validate(wf)
  /\ UNCHANGED wf

InitRecorder ==
  /\ exists = {}
  /\ records = [id \in ExecIds |-> NoRecord]
  /\ now = 1
  /\ ret = Void

InitValidator == wf = NoWorkflow /\ vpc = "input" /\ vres = EmptyResult

\* no rollback between two awaits, no retry call, nothing monitored
InitOthers ==
  rb = NoRollback /\ rt = NoRetry /\ mon = NoMonitor /\ emitted = <<>> /\ InitMore

\* the validator is constructed on its own and calls no other component: in
\* its specifications no recorder, manager or monitor exists
NotConstructed == <<>>

InitValidatorAlone ==
  /\ exists = {} /\ records = NotConstructed /\ now = 1 /\ ret = NotConstructed
  /\ rb = NotConstructed /\ rt = NotConstructed /\ mon = NotConstructed
  /\ emitted = <<>> /\ sampler = NotConstructed /\ bus = NotConstructed
  /\ disk = NotConstructed /\ cache = NotConstructed /\ heap = NotConstructed
  /\ calls = NotConstructed /\ held = NotConstructed

InitGraph ==
  GraphWorkflow(wf) /\ vpc = "input" /\ vres = EmptyResult /\ InitValidatorAlone
InitSchema ==
  SchemaWorkflow(wf) /\ vpc = "input" /\ vres = EmptyResult /\ InitValidatorAlone

NextValidate == Validate /\ UNCHANGED <<rvars, xvars, yvars>>

SpecValidate == InitGraph /\ [][NextValidate]_vars
SpecSchema == InitSchema /\ [][NextValidate]_vars

\* node ids the recorder is called with, and the sizes of the workflows an
\* execution is created from
RecNodeIds == {"A", "B", "C"}
OneNodeId == {"A"}
WorkflowSizes == {0, 1}

NodeRecords(ids) == [nodeId : ids, status : NodeExecutionStatus, logs : {0}]

Init == InitValidator /\ InitRecorder /\ InitOthers

\* the calls of the recorder and of the recovery managers with node ids ids
Calls(ids) ==
  \/ \E id \in ExecIds, totalNodes \in WorkflowSizes : CreateExecution(id, totalNodes)
  \/ \E id \in ExecIds, status \in ExecutionStatus : UpdateStatus(id, status)
  \/ \E id \in ExecIds, nodeRecord \in NodeRecords(ids) : AddNodeExecution(id, nodeRecord)
  \/ \E id \in ExecIds, nodeId \in ids : AddCheckpoint(id, nodeId)
  \/ \E id \in ExecIds, targetNodeId \in ids : Rollback(id, targetNodeId)
  \/ \E id \in ExecIds : Resume(id)

\* the calls in any order on an execution of one node, while time passes
Next == (Calls(OneNodeId) \/ Tick) /\ UNCHANGED <<vvars, yvars, xvars>>

Spec == Init /\ [][Next]_vars

\* createExecution followed by recordings of node executions, three node ids
NextNodeExecutions ==
  (\/ \E id \in ExecIds, totalNodes \in WorkflowSizes : CreateExecution(id, totalNodes)
   \/ \E id \in ExecIds, nodeRecord \in NodeRecords(RecNodeIds) :
        AddNodeExecution(id, nodeRecord))
    /\ UNCHANGED <<vvars, yvars, xvars>>

SpecNodeExecutions == Init /\ [][NextNodeExecutions]_vars

(***************************************************************************)
(* rollback applied to a stored record: the record is any record the calls *)
(* above build within one clock tick from a workflow without nodes (up to  *)
(* three node records, any statuses, up to MaxCheckpoints checkpoints)     *)
(***************************************************************************)
InjectiveSeqs(S) ==
  {q \in UNION {[1..n -> S] : n \in 0..Cardinality(S)} :
     \A i, j \in 1..Len(q) : i # j => q[i] # q[j]}

StoredRecordOf(status, endTime, nodes, checkpoints) ==
  [status |-> status, startTime |-> 1, endTime |-> endTime,
   duration |-> IF endTime = NoTime THEN NoTime ELSE 0,
   nodes |-> nodes,
   stats |-> [totalNodes |-> 0,
              completedNodes |-> CountStatus(nodes, COMPLETED),
              failedNodes |-> CountStatus(nodes, FAILED),
              skippedNodes |-> CountStatus(nodes, SKIPPED),
              successRate |-> NoRate],
   checkpoints |-> checkpoints]

StoredNodeLists ==
  UNION {{[i \in 1..Len(ids) |-> [nodeId |-> ids[i], status |-> st[i], logs |-> 0]]
            : st \in [1..Len(ids) -> NodeExecutionStatus]}
           : ids \in InjectiveSeqs(RecNodeIds)}

StoredCheckpointLists ==
  UNION {{[i \in 1..n |-> [nodeId |-> cp[i], timestamp |-> 1]] : cp \in [1..n -> RecNodeIds]}
           : n \in 0..MaxCheckpoints}

InitRollback ==
  /\ InitValidator
  /\ InitOthers
  /\ exists = ExecIds
  /\ \E status \in ExecutionStatus, nodes \in StoredNodeLists,
        checkpoints \in StoredCheckpointLists :
       \E endTime \in (IF status \in TerminalStatus THEN {1} ELSE {NoTime, 1}) :
         records = [id \in ExecIds |-> StoredRecordOf(status, endTime, nodes, checkpoints)]
  /\ now = 1
  /\ ret = Void

NextRollback ==
  (\E id \in ExecIds, targetNodeId \in RecNodeIds : Rollback(id, targetNodeId))
    /\ UNCHANGED <<vvars, yvars, xvars>>

SpecRollback == InitRollback /\ [][NextRollback]_vars

\* workflow.nodes of the workflow the executions below were created from
DeclaredOrder == <<"A", "B", "C">>

\* a record of an execution of that workflow, as stored after the calls that
\* built it: the success rate is undefined while updateStatus was never
\* called, else the rate computed by a last updateStatus
StoredRecordOfWorkflow(status, endTime, nodes, checkpoints) ==
  LET r == StoredRecordOf(status, endTime, nodes, checkpoints)
  IN  [r EXCEPT !.stats.totalNodes = Len(DeclaredOrder),
                !.stats.successRate = IF status = PENDING /\ endTime = NoTime
                                        THEN NoRate ELSE r.stats.completedNodes]

InitResume ==
  /\ InitValidator
  /\ InitOthers
  /\ exists = ExecIds
  /\ \E status \in ExecutionStatus, nodes \in StoredNodeLists,
        checkpoints \in StoredCheckpointLists :
       \E endTime \in (IF status \in TerminalStatus THEN {1} ELSE {NoTime, 1}) :
         records = [id \in ExecIds |->
                      StoredRecordOfWorkflow(status, endTime, nodes, checkpoints)]
  /\ now = 1
  /\ ret = Void

\* rollback, resume and getResumeContext applied to a stored record
NextResume ==
  (\/ \E id \in ExecIds, targetNodeId \in RecNodeIds : Rollback(id, targetNodeId)
   \/ \E id \in ExecIds : Resume(id)
   \/ \E id \in ExecIds : GetResumeContext(id))
    /\ UNCHANGED <<vvars, yvars, xvars>>

SpecResume == InitResume /\ [][NextResume]_vars

\* one executeWithRetry call with any configuration, the operation failing
\* or succeeding at each attempt
NextRetry ==
  (\/ \E config \in RetryConfigs : RetryCall(config)
   \/ OperationSucceeds
   \/ \E error \in OperationErrors : OperationFails(error)
   \/ SleepEnds)
    /\ UNCHANGED <<vvars, yvars, rvars, rb, mon, emitted>>

SpecRetry == Init /\ [][NextRetry]_vars

MonitoredRecords(maxTotal) ==
  {MonitoredRecord(status, totalNodes) : status \in ExecutionStatus, totalNodes \in 0..maxTotal}

\* monitor calls in any order on one execution, with more node ids than the
\* workflow has nodes
NextMonitor ==
  \/ /\ UNCHANGED <<vvars, yvars, exists, records, now, rb, rt>>
     /\ \E id \in ExecIds :
          \/ \E record \in MonitoredRecords(MaxMonitored) : StartMonitoring(id, record)
          \/ StopMonitoring(id)
          \/ \E nodeId \in RecNodeIds, status \in NodeExecutionStatus :
               UpdateNodeStatus(id, nodeId, status)
          \/ GetProgress(id)
  \/ Tick /\ UNCHANGED <<vvars, yvars, xvars>>

SpecMonitor == Init /\ [][NextMonitor]_vars

\* two executions
TwoExecIds == {"e1", "e2"}

\* the metrics buffer after k ticks at the time monitoring started
Sampled(id, t, k) == [i \in 1..k |-> [executionId |-> id, timestamp |-> t, duration |-> 0]]

\* sizes of the metrics buffers the sampler starts from: empty, one below
\* the capacity, full
SampledSizes == {0, MetricsCapacity - 1, MetricsCapacity}

\* any of the two executions monitored, in either order of registration,
\* with metrics buffers of the sizes above
InitSampler ==
  /\ InitValidator /\ InitRecorder
  /\ rb = NoRollback /\ rt = NoRetry /\ emitted = <<>> /\ InitMore
  /\ \E active \in SUBSET TwoExecIds, first \in TwoExecIds :
       \E size \in [TwoExecIds -> SampledSizes] :
         mon = [id \in TwoExecIds |->
                  IF id \in active
                    THEN [NewEntry(MonitoredRecord(RUNNING, 0), now,
                                   IF id = first \/ first \notin active THEN 1 ELSE 2)
                            EXCEPT !.metrics = Sampled(id, now, size[id])]
                  ELSE NoEntry]

\* ticks of the sampler, with startMonitoring and stopMonitoring called
\* between the ticks and, by listeners of the events, between two turns of
\* the loop of a tick
NextSampler ==
  /\ UNCHANGED <<vvars, exists, records, now, rb, rt, bus, zvars>>
  /\ \/ sampler.ticks < MaxTicks /\ SamplerTick
     \/ CollectPerformanceMetrics
     \/ SamplerTickEnds
     \/ \E id \in TwoExecIds, record \in MonitoredRecords(0) :
          StartMonitoring(id, record) /\ UNCHANGED sampler
     \/ \E id \in TwoExecIds : StopMonitoring(id) /\ Deregistered(id)

SpecSampler == InitSampler /\ [][NextSampler]_vars

\* the limits getLogs is called with
LogLimits == {0, 1, 2, LogCapacity - 1, LogCapacity, LogCapacity + 1}

\* logs added to one monitored execution and read back
NextLogs ==
  /\ UNCHANGED <<vvars, yvars, exists, records, now, rb, rt>>
  /\ \E id \in ExecIds :
       \/ \E record \in MonitoredRecords(0) : StartMonitoring(id, record)
       \/ StopMonitoring(id)
       \/ (mon[id].active => NextLog(id).message <= MaxLogCalls) /\ AddLog(NextLog(id))
       \/ \E limit \in LogLimits : GetLogs(id, limit)

SpecLogs == Init /\ [][NextLogs]_vars

\* the map after updateNodeStatus gave the first completed nodes COMPLETED,
\* the next failed ones FAILED, then RUNNING, SKIPPED and PENDING ones
StatusesOf(completed, failed, running, skipped, pending) ==
  [n \in 1..(completed + failed + running + skipped + pending) |->
     IF n <= completed THEN COMPLETED
     ELSE IF n <= completed + failed THEN FAILED
     ELSE IF n <= completed + failed + running THEN RUNNING
     ELSE IF n <= completed + failed + running + skipped THEN SKIPPED
     ELSE PENDING]

\* a monitored execution of any size with any numbers of node statuses known
InitProgress ==
  /\ InitValidator /\ InitRecorder
  /\ rb = NoRollback /\ rt = NoRetry /\ emitted = <<>> /\ InitMore
  /\ \E totalNodes \in 0..MaxProgressNodes :
       \E completed \in 0..MaxProgressNodes :
         \E failed \in 0..(MaxProgressNodes - completed) :
           \E running \in 0..(MaxProgressNodes - completed - failed) :
             \E skipped \in 0..(MaxProgressNodes - completed - failed - running) :
               \E pending \in
                    0..(MaxProgressNodes - completed - failed - running - skipped) :
                 mon = [id \in ExecIds |->
                          [NewEntry(MonitoredRecord(RUNNING, totalNodes), 0, 1)
                             EXCEPT !.nodeStatuses =
                                      StatusesOf(completed, failed, running, skipped,
                                                 pending)]]

NextProgress ==
  (\E id \in ExecIds : GetProgress(id))
    /\ UNCHANGED <<vvars, yvars, exists, records, now, rb, rt>>

SpecProgress == InitProgress /\ [][NextProgress]_vars

\* rollback applied to a stored record, one await at a time
NextRollbackSteps ==
  (\/ \E id \in ExecIds, targetNodeId \in RecNodeIds : RollbackBegin(id, targetNodeId)
   \/ RollbackHook
   \/ RollbackFinish)
    /\ UNCHANGED <<vvars, yvars, rt, mon, emitted>>

SpecRollbackSteps == InitRollback /\ [][NextRollbackSteps]_vars

(***************************************************************************)
(* Graph notions the claims about validate() are stated in, defined        *)
(* without the validator's searches                                        *)
(***************************************************************************)
\* the edges of w as <<source, target>> pairs: all of them, or only those
\* with enabled !== false
EdgePairs(w, enabledOnly) ==
  {<<w.edges[i].source, w.edges[i].target>> :
     i \in {j \in 1..Len(w.edges) : enabledOnly => w.edges[j].enabled}}

Among(E, V) == {p \in E : p[1] \in V /\ p[2] \in V}

Succ(E, X) == {p[2] : p \in {q \in E : q[1] \in X}}

RECURSIVE Descendants(_, _)
\* X and everything reachable from X
Descendants(E, X) ==
  LET Y == X \cup Succ(E, X) IN IF Y = X THEN X ELSE Descendants(E, Y)

\* some id of V lies on a directed cycle of E
HasCycle(E, V) == \E n \in V : n \in Descendants(E, Succ(E, {n}))

RECURSIVE ChainLength(_, _, _)
\* number of ids on the longest chain of E that starts in X (E without a
\* cycle reachable from X)
ChainLength(E, X, n) == IF X = {} THEN n ELSE ChainLength(E, Succ(E, X), n + 1)

ListedNodes(w) == Range(w.nodes)

HasError(code) == \E i \in 1..Len(vres.errors) : vres.errors[i].code = code

(***************************************************************************)
(* C1 (as stated): a directed cycle among the nodes, whatever the edges'   *)
(* optional fields, makes validate return valid = false with a             *)
(* CIRCULAR_DEPENDENCY error.                                              *)
(***************************************************************************)
C1_CycleAlwaysReported ==
  (vpc = "returned" /\ HasCycle(Among(EdgePairs(wf, FALSE), ListedNodes(wf)), ListedNodes(wf)))
    => (~vres.valid /\ HasError("CIRCULAR_DEPENDENCY"))

(***************************************************************************)
(* C1 (amended): a directed cycle among the nodes formed by edges that are *)
(* not disabled (enabled !== false) makes validate return valid = false    *)
(* with at least one CIRCULAR_DEPENDENCY error.                            *)
(***************************************************************************)
C1_EnabledCycleReported ==
  (vpc = "returned" /\ HasCycle(Among(EdgePairs(wf, TRUE), ListedNodes(wf)), ListedNodes(wf)))
    => (~vres.valid /\ HasError("CIRCULAR_DEPENDENCY"))

\* a cycle through all three nodes, none of them a self-loop, is reported
C1_Witness ==
  /\ vpc = "returned"
  /\ Len(wf.nodes) = 3
  /\ \A i \in 1..Len(wf.edges) : wf.edges[i].enabled /\ wf.edges[i].source # wf.edges[i].target
  /\ Succ(EdgePairs(wf, TRUE), {3}) = {2}
  /\ Succ(EdgePairs(wf, TRUE), {2}) = {1}
  /\ Succ(EdgePairs(wf, TRUE), {1}) = {3}
  /\ HasError("CIRCULAR_DEPENDENCY")
  /\ ~vres.valid

(***************************************************************************)
(* C2 (as stated): for an acyclic graph maxDepth is the number of nodes on *)
(* the longest directed chain of the graph; it is 0 when a cycle is        *)
(* detected and 0 for a graph without nodes.  (Stated for the graphs whose *)
(* edges all join listed nodes.)                                           *)
(***************************************************************************)
C2_DepthOfGraph ==
  (vpc = "returned" /\ EdgePairs(wf, FALSE) = Among(EdgePairs(wf, FALSE), ListedNodes(wf))) =>
    LET V == ListedNodes(wf)
        E == EdgePairs(wf, FALSE)
    IN  /\ (V = {} \/ HasError("CIRCULAR_DEPENDENCY")) => vres.stats.maxDepth = 0
        /\ (V # {} /\ ~HasCycle(E, V)) => vres.stats.maxDepth = ChainLength(E, V, 0)

(***************************************************************************)
(* C2 (amended): when no cycle of enabled edges can be reached from a      *)
(* listed node, maxDepth is the number of ids on the longest chain of      *)
(* enabled edges that starts at a listed node (an endpoint that names no   *)
(* listed node counts as an id of the chain); when such a cycle exists, or *)
(* the graph has no nodes, maxDepth is 0.                                  *)
(***************************************************************************)
C2_DepthOfEnabledChain ==
  vpc = "returned" =>
    LET V == ListedNodes(wf)
        E == EdgePairs(wf, TRUE)
    IN  IF V = {} \/ HasCycle(E, Descendants(E, V))
          THEN vres.stats.maxDepth = 0
          ELSE vres.stats.maxDepth = ChainLength(E, V, 0)

\* two paths of different length from node 1 to node 3: the depth is 3
C2_Witness ==
  /\ vpc = "returned"
  /\ EdgePairs(wf, TRUE) = {<<1, 2>>, <<2, 3>>, <<1, 3>>}
  /\ Len(wf.edges) = 3
  /\ wf.edges[1].target = 3
  /\ vres.stats.maxDepth = 3

(***************************************************************************)
(* C3: validate never throws; a missing or non-array field is reported as  *)
(* an error entry of a structured result.                                  *)
(***************************************************************************)
C3_NeverThrows == vpc # "threw"

(***************************************************************************)
(* Notions the claims about execution records are stated in                *)
(***************************************************************************)
AllowedTransitions ==
  {<<PENDING, RUNNING>>, <<RUNNING, COMPLETED>>, <<RUNNING, FAILED>>,
   <<RUNNING, CANCELLED>>, <<RUNNING, PAUSED>>, <<PAUSED, RUNNING>>, <<FAILED, RUNNING>>}

IsPrefix(s, t) == Len(s) <= Len(t) /\ SubSeq(t, 1, Len(s)) = s

UniqueNodeIds(nodes) ==
  \A i, j \in 1..Len(nodes) : i # j => nodes[i].nodeId # nodes[j].nodeId

(***************************************************************************)
(* C4 (as stated): every change of a record's status is one of PENDING to  *)
(* RUNNING; RUNNING to COMPLETED, FAILED, CANCELLED or PAUSED; PAUSED or   *)
(* FAILED to RUNNING.                                                      *)
(***************************************************************************)
C4_AllowedTransitionsOnly ==
  [][\A id \in ExecIds :
       (id \in exists /\ records'[id].status # records[id].status)
         => <<records[id].status, records'[id].status>> \in AllowedTransitions]_vars

(***************************************************************************)
(* C4 (amended): a record is created PENDING.  A status change made by     *)
(* resume goes from PAUSED or FAILED to RUNNING; a status change made by   *)
(* rollback ends in PAUSED, from any other status; every other status      *)
(* change is made by updateStatus, which sets the status it is given from  *)
(* any status.                                                             *)
(***************************************************************************)
C4_StatusChanges ==
  [][\A id \in ExecIds :
       /\ (id \notin exists /\ id \in exists') => records'[id].status = PENDING
       /\ (id \in exists /\ records'[id].status # records[id].status) =>
            \/ /\ ret'.op = "resume"
               /\ ret'.success
               /\ records[id].status \in {PAUSED, FAILED}
               /\ records'[id].status = RUNNING
            \/ /\ ret'.op = "rollback"
               /\ ret'.success
               /\ records'[id].status = PAUSED
            \/ /\ ret'.op = "void"
               /\ UpdateStatus(id, records'[id].status)]_vars

\* a rollback has paused a record that had reached a terminal status
C4_Witness ==
  /\ ret.op = "rollback"
  /\ ret.success
  /\ records["e1"].status = PAUSED
  /\ records["e1"].endTime # NoTime

(***************************************************************************)
(* C5: the node list of an execution holds at most one record per node id; *)
(* addNodeExecution replaces the record of a node id already listed by the *)
(* record passed, at the same position, and appends the record of a node   *)
(* id not yet listed; the other records are left as they were.             *)
(***************************************************************************)
C5_OneRecordPerNode ==
  [][\A id \in ExecIds :
       /\ id \in exists' => UniqueNodeIds(records'[id].nodes)
       /\ \A nodeRecord \in NodeRecords(RecNodeIds) :
            (id \in exists /\ AddNodeExecution(id, nodeRecord)) =>
              LET old == records[id].nodes
                  new == records'[id].nodes
                  at == {i \in 1..Len(old) : old[i].nodeId = nodeRecord.nodeId}
              IN  /\ \A i \in 1..Len(old) :
                       new[i] = IF i \in at THEN nodeRecord ELSE old[i]
                  /\ Len(new) = Len(old) + (IF at = {} THEN 1 ELSE 0)
                  /\ at = {} => new[Len(new)] = nodeRecord]_vars

\* the first of three records holds COMPLETED where it stood, the others follow
C5_Witness ==
  /\ "e1" \in exists
  /\ Len(records["e1"].nodes) = 3
  /\ records["e1"].nodes[1] = [nodeId |-> "A", status |-> COMPLETED, logs |-> 0]
  /\ records["e1"].nodes[2] = [nodeId |-> "B", status |-> RUNNING, logs |-> 0]
  /\ records["e1"].nodes[3] = [nodeId |-> "C", status |-> PENDING, logs |-> 0]
  /\ records["e1"].stats.completedNodes = 1

(***************************************************************************)
(* C6: in every state of a record, completedNodes + failedNodes +          *)
(* skippedNodes <= totalNodes.                                             *)
(***************************************************************************)
C6_CountsWithinTotal ==
  \A id \in exists :
    records[id].stats.completedNodes + records[id].stats.failedNodes
      + records[id].stats.skippedNodes <= records[id].stats.totalNodes

(***************************************************************************)
(* C7: endTime and duration are unset while the record has never been      *)
(* terminal, and once assigned they are never assigned again.              *)
(***************************************************************************)
C7_AssignedOnce ==
  [][\A id \in ExecIds :
       /\ (id \in exists' /\ records'[id].endTime # NoTime /\
           (id \notin exists \/ records[id].endTime = NoTime))
            => records'[id].status \in TerminalStatus
       /\ (id \in exists /\ records[id].endTime # NoTime)
            => /\ records'[id].endTime = records[id].endTime
               /\ records'[id].duration = records[id].duration]_vars

(***************************************************************************)
(* C8: while the status of a record is terminal, a call other than resume  *)
(* or rollback leaves its status, node list, stats and checkpoints as they *)
(* are.                                                                    *)
(***************************************************************************)
C8_TerminalImmutable ==
  [][\A id \in ExecIds :
       (id \in exists /\ records[id].status \in TerminalStatus
          /\ ret'.op \notin {"resume", "rollback"})
         => /\ records'[id].status = records[id].status
            /\ records'[id].nodes = records[id].nodes
            /\ records'[id].stats = records[id].stats
            /\ records'[id].checkpoints = records[id].checkpoints]_vars

(***************************************************************************)
(* C9: the checkpoint list before a call is a prefix of the list after it, *)
(* and the timestamps are non-decreasing along the list (the clock never   *)
(* runs backwards).                                                        *)
(***************************************************************************)
C9_CheckpointsAppendOnly ==
  [][\A id \in ExecIds :
       /\ id \in exists => IsPrefix(records[id].checkpoints, records'[id].checkpoints)
       /\ id \in exists' =>
            \A i, j \in 1..Len(records'[id].checkpoints) :
              i < j => records'[id].checkpoints[i].timestamp
                         <= records'[id].checkpoints[j].timestamp]_vars

\* two checkpoints taken at different times are both there after a rollback
C9_Witness ==
  /\ ret.op = "rollback"
  /\ ret.success
  /\ Len(records["e1"].checkpoints) = 2
  /\ records["e1"].checkpoints[1].timestamp < records["e1"].checkpoints[2].timestamp

(***************************************************************************)
(* C10: a rollback to target that succeeds on a record with node list      *)
(* n1..nk, target = ni, found a checkpoint of ni; it leaves the node list  *)
(* n1..ni (the records before ni as they were, ni with its id and status), *)
(* the status PAUSED, and returns as affectedNodes the ids of n(i+1)..nk   *)
(* in the order of the list.                                               *)
(***************************************************************************)
C10_RollbackTruncates ==
  [][\A id \in ExecIds :
       (ret'.op = "rollback" /\ ret'.success) =>
         LET old == records[id].nodes
             new == records'[id].nodes
             at == {i \in 1..Len(old) : old[i].nodeId = ret'.rolledBackTo}
         IN  /\ at # {}
             /\ \E c \in 1..Len(records[id].checkpoints) :
                  records[id].checkpoints[c].nodeId = ret'.rolledBackTo
             /\ \E i \in at :
                  /\ Len(new) = i
                  /\ \A j \in 1..(i - 1) : new[j] = old[j]
                  /\ new[i].nodeId = old[i].nodeId
                  /\ new[i].status = old[i].status
                  /\ Len(ret'.affectedNodes) = Len(old) - i
                  /\ \A j \in 1..(Len(old) - i) : ret'.affectedNodes[j] = old[i + j].nodeId
             /\ records'[id].status = PAUSED]_vars

\* the scenario [A: COMPLETED, B: COMPLETED, C: FAILED] rolled back to A
C10_Witness ==
  /\ ret.op = "rollback"
  /\ ret.success
  /\ ret.rolledBackTo = "A"
  /\ ret.affectedNodes = <<"B", "C">>
  /\ Len(records["e1"].nodes) = 1
  /\ records["e1"].nodes[1].nodeId = "A"
  /\ records["e1"].nodes[1].status = COMPLETED
  /\ records["e1"].status = PAUSED
  /\ records["e1"].endTime # NoTime

(***************************************************************************)
(* C11: rollback returns, never throws; it fails with EXECUTION_NOT_FOUND  *)
(* when no record has the id, else with CHECKPOINT_NOT_FOUND when the      *)
(* record has no checkpoint for the target, else with NODE_NOT_FOUND when  *)
(* the node list has no record for the target; each of these failures      *)
(* returns no affected nodes and leaves the stored record as it was.       *)
(***************************************************************************)
C11_RollbackFailures ==
  [][\A id \in ExecIds, targetNodeId \in RecNodeIds :
       Rollback(id, targetNodeId) =>
         LET checkpointed == \E c \in 1..Len(records[id].checkpoints) :
                               records[id].checkpoints[c].nodeId = targetNodeId
             listed == \E n \in 1..Len(records[id].nodes) :
                         records[id].nodes[n].nodeId = targetNodeId
             expected == IF id \notin exists THEN "EXECUTION_NOT_FOUND"
                         ELSE IF ~checkpointed THEN "CHECKPOINT_NOT_FOUND"
                         ELSE IF ~listed THEN "NODE_NOT_FOUND"
                         ELSE ""
         IN  /\ ~ret'.threw
             /\ ret'.op = "rollback"
             /\ ret'.rolledBackTo = targetNodeId
             /\ ret'.error = expected
             /\ ret'.success <=> expected = ""
             /\ expected # "" => /\ ret'.affectedNodes = <<>>
                                 /\ records' = records
                                 /\ exists' = exists]_vars

\* a rollback to a node that has a checkpoint but no node record has failed
C11_Witness ==
  /\ "e1" \in exists
  /\ ret.op = "rollback"
  /\ ~ret.success
  /\ ret.error = "NODE_NOT_FOUND"
  /\ ret.rolledBackTo = "A"
  /\ ret.affectedNodes = <<>>
  /\ records["e1"].nodes = <<>>
  /\ Len(records["e1"].checkpoints) = 1
  /\ records["e1"].checkpoints[1].nodeId = "A"

(***************************************************************************)
(* C12: during a rollback the hook is invoked once for each node record    *)
(* after the target and for no other node, the most recently executed node *)
(* first, and the node list is truncated and the status set to PAUSED only *)
(* after the last of these hooks has completed.                            *)
(***************************************************************************)
C12_HooksInReverseThenTruncate ==
  [][\A id \in ExecIds :
       LET \* the ids after the node record of target in the list before
           \* the step, the last one first
           After(target) ==
             LET old == records[id].nodes
                 at == CHOOSE i \in 1..Len(old) : old[i].nodeId = target
             IN  [j \in 1..(Len(old) - at) |-> old[Len(old) + 1 - j].nodeId]
       IN  \* while hooks are awaited the record is as it was, and the hooks
           \* invoked so far are the first of the ids after the target
           /\ (rb'.pc = "hooks" /\ rb'.id = id) =>
                /\ records'[id] = records[id]
                /\ Len(rb'.invoked) >= 1
                /\ Len(rb'.invoked) = (IF rb.pc = "hooks" THEN Len(rb.invoked) ELSE 0) + 1
                /\ IsPrefix(rb'.invoked, After(rb'.targetNodeId))
           \* the record changes only as rollback returns success, and by
           \* then every hook has been invoked
           /\ records'[id] # records[id] =>
                /\ ret'.op = "rollback" /\ ret'.success
                /\ rb'.pc = "idle"
                /\ ret'.hooks = After(ret'.rolledBackTo)
                /\ rb.pc = "hooks" => rb.invoked = ret'.hooks
                /\ Len(records'[id].nodes) + Len(ret'.hooks) = Len(records[id].nodes)
                /\ records'[id].status = PAUSED]_vars

\* rolled back to A over B and C: the hook of C ran first, then the hook of B
C12_Witness ==
  /\ rb.pc = "idle"
  /\ ret.op = "rollback"
  /\ ret.success
  /\ ret.rolledBackTo = "A"
  /\ ret.hooks = <<"C", "B">>
  /\ NodeIdsOf(records["e1"].nodes) = <<"A">>
  /\ records["e1"].status = PAUSED

(***************************************************************************)
(* C13: resume returns success exactly when the record exists and its      *)
(* status is PAUSED or FAILED at the call; on success the status becomes   *)
(* RUNNING; otherwise it returns a failure with an error code, without     *)
(* throwing, and leaves the stored record as it was.                       *)
(***************************************************************************)
C13_ResumeOutcome ==
  [][\A id \in ExecIds :
       Resume(id) =>
         LET resumable == id \in exists /\ records[id].status \in {PAUSED, FAILED}
         IN  /\ ret'.op = "resume"
             /\ ~ret'.threw
             /\ ret'.success <=> resumable
             /\ resumable => records'[id].status = RUNNING
             /\ ~resumable => /\ ret'.error # ""
                              /\ records' = records
                              /\ exists' = exists]_vars

\* a record that had failed is running again after a successful resume
C13_Witness ==
  /\ "e1" \in exists
  /\ ret.op = "resume"
  /\ ret.success
  /\ records["e1"].status = RUNNING
  /\ records["e1"].endTime # NoTime

(***************************************************************************)
(* Notions the claims about the resume context are stated in.  The claims  *)
(* are stated for the records whose node list follows the order in which   *)
(* the workflow declares its nodes (A, then B, then C).                    *)
(***************************************************************************)
FollowsDeclaredOrder(nodes) ==
  /\ Len(nodes) <= Len(DeclaredOrder)
  /\ \A i \in 1..Len(nodes) : nodes[i].nodeId = DeclaredOrder[i]

\* the node declared right after nodeId, "" when nodeId is declared last
DeclaredAfter(nodeId) ==
  LET p == CHOOSE i \in 1..Len(DeclaredOrder) : DeclaredOrder[i] = nodeId
  IN  IF p < Len(DeclaredOrder) THEN DeclaredOrder[p + 1] ELSE ""

\* ret holds the resume context of the stored record id
ContextReturned(id) ==
  /\ id \in exists
  /\ ret.success
  /\ ret.op \in {"getResumeContext", "resume"}

(***************************************************************************)
(* C14: for a record with a COMPLETED node record, the resume context has  *)
(* checkpointNodeId = the id of the last COMPLETED record of the node      *)
(* list, skippedNodes = the ids of the COMPLETED records, and              *)
(* resumeFromNode = the node declared right after the last completed one   *)
(* in the workflow.                                                        *)
(***************************************************************************)
C14_ContextAfterLastCompleted ==
  \A id \in ExecIds :
    LET nodes == records[id].nodes
        done == {i \in 1..Len(nodes) : nodes[i].status = COMPLETED}
    IN  (ContextReturned(id) /\ FollowsDeclaredOrder(nodes) /\ done # {}) =>
          LET last == CHOOSE i \in done : \A j \in done : j <= i
          IN  /\ ret.context.checkpointNodeId = nodes[last].nodeId
              /\ ret.context.skippedNodes
                   = NodeIdsOf(SelectSeq(nodes, LAMBDA n : n.status = COMPLETED))
              /\ ret.context.resumeFromNode = DeclaredAfter(nodes[last].nodeId)

(***************************************************************************)
(* C15: for a record without a COMPLETED node record, the empty node list  *)
(* included, the resume context has no skipped nodes and resumeFromNode =  *)
(* the first node the workflow declares.                                   *)
(***************************************************************************)
C15_ContextFromFirstNode ==
  \A id \in ExecIds :
    LET nodes == records[id].nodes
    IN  (ContextReturned(id) /\ FollowsDeclaredOrder(nodes)
           /\ \A i \in 1..Len(nodes) : nodes[i].status # COMPLETED) =>
          /\ ret.context.skippedNodes = <<>>
          /\ ret.context.resumeFromNode = DeclaredOrder[1]

(***************************************************************************)
(* Notions the retry claims are stated in                                  *)
(***************************************************************************)
RetryReturned == rt.pc = "returned"

\* the delay the claim gives for the sleep after failed attempt k
ClaimedDelay(k, config) ==
  Min(config.maxDelay,
      IF config.backoffStrategy = "linear" THEN config.initialDelay * k
      ELSE IF config.backoffStrategy = "exponential"
        THEN config.initialDelay * Pow2(k - 1)
      ELSE config.initialDelay)

\* C16: executeWithRetry invokes the operation at most maxAttempts times, the
\* attempts field of its result is the number of invocations made, and once
\* the operation has succeeded it is not invoked again, for every
\* maxAttempts from 0 on and every pattern of failures.
C16_InvocationsCounted ==
  /\ [](/\ rt.pc # "idle" => rt.invocations <= rt.config.maxAttempts
        /\ RetryReturned => rt.result.attempts = rt.invocations)
  /\ [][rt.result.success => rt'.invocations = rt.invocations]_vars

\* a call with maxAttempts 0 has returned, and so has a call that failed
\* more than once before it returned: this one after two failures
C16_Witness ==
  /\ RetryReturned
  /\ rt.result.success
  /\ rt.invocations = 3
  /\ Len(rt.errors) = 2

\* the call with maxAttempts 0 returns without an invocation
C16_WitnessNoAttempt ==
  RetryReturned /\ rt.config.maxAttempts = 0 /\ rt.invocations = 0

\* error matches an entry of the list by its code or by a substring of
\* its message
MatchesEntry(error, entries) ==
  \E entry \in entries : error.code = entry \/ entry \in error.mentions

C18_BackoffDelays ==
  /\ rt.pc # "idle" =>
       /\ Len(rt.sleeps) = 0 \/ Len(rt.sleeps) <= rt.config.maxAttempts - 1
       /\ \A k \in 1..Len(rt.sleeps) : rt.sleeps[k] = ClaimedDelay(k, rt.config)
  /\ RetryReturned =>
       IF rt.invocations = 0 THEN rt.sleeps = <<>>
       ELSE Len(rt.sleeps) = rt.invocations - 1
  /\ rt.pc = "sleeping" => Len(rt.sleeps) = rt.invocations

\* an exponential backoff slept an unclamped delay and then a clamped one
C18_Witness ==
  /\ rt.config.backoffStrategy = "exponential"
  /\ Len(rt.sleeps) = 3
  /\ rt.sleeps[2] = 2 * rt.config.initialDelay
  /\ rt.sleeps[3] = rt.config.maxDelay
  /\ rt.sleeps[3] < 4 * rt.config.initialDelay

(***************************************************************************)
(* Notions the monitor claims are stated in                                *)
(***************************************************************************)
\* the node event the claim gives for a new status
ClaimedNodeEvents ==
  {<<RUNNING, NODE_STARTED>>, <<COMPLETED, NODE_COMPLETED>>, <<FAILED, NODE_FAILED>>,
   <<SKIPPED, NODE_SKIPPED>>}

\* C19: for a monitored execution, updateNodeStatus emits no event when the
\* status equals the last-known status of the node; when it differs it
\* emits the node event matching the new status and then PROGRESS_UPDATED
\* with the recomputed progress, in that order.
C19_EventsOnStatusChange ==
  [][\A id \in ExecIds, nodeId \in RecNodeIds, status \in NodeExecutionStatus :
       UpdateNodeStatus(id, nodeId, status) /\ mon[id].active =>
         IF MapGet(mon[id].nodeStatuses, nodeId) = status
           THEN emitted' = <<>>
         ELSE /\ Len(emitted') = 2
              /\ <<status, emitted'[1].type>> \in ClaimedNodeEvents
              /\ emitted'[2].type = PROGRESS_UPDATED
              /\ emitted'[2].data = getProgress(id)']_vars

\* the same, for the new statuses that have a node event
C19_EventsOnChangeToEventStatus ==
  [][\A id \in ExecIds, nodeId \in RecNodeIds, status \in NodeExecutionStatus \ {PENDING} :
       UpdateNodeStatus(id, nodeId, status) /\ mon[id].active =>
         IF MapGet(mon[id].nodeStatuses, nodeId) = status
           THEN emitted' = <<>>
         ELSE /\ Len(emitted') = 2
              /\ <<status, emitted'[1].type>> \in ClaimedNodeEvents
              /\ emitted'[2].type = PROGRESS_UPDATED
              /\ emitted'[2].data = getProgress(id)']_vars

\* a node last known as RUNNING has been set to PENDING and nothing was
\* emitted, though the number of running nodes changed
C19_PendingEmitsNothing ==
  /\ ret.op = "updateNodeStatus"
  /\ mon["e1"].active
  /\ MapGet(mon["e1"].nodeStatuses, "A") = PENDING
  /\ emitted = <<>>

\* the nodes of execution id last known with status
LastKnown(id, status) == {n \in DOMAIN mon[id].nodeStatuses : mon[id].nodeStatuses[n] = status}

\* the fraction p is the quotient a / b
IsQuotient(p, a, b) == p.den > 0 /\ p.num * b = a * p.den

ProgressReturned == ret.op = "getProgress" /\ ~ret.isNull

\* C20: getProgress reports the numbers of nodes last known COMPLETED,
\* FAILED and RUNNING, pendingNodes = totalNodes - completedNodes -
\* failedNodes - runningNodes, and progress = completedNodes / totalNodes,
\* 0 when totalNodes is 0.
C20_ProgressFromLastKnownStatuses ==
  ProgressReturned =>
    LET p == ret.value
        totalNodes == mon[p.executionId].record.totalNodes
    IN  /\ p.totalNodes = totalNodes
        /\ p.completedNodes = Cardinality(LastKnown(p.executionId, COMPLETED))
        /\ p.failedNodes = Cardinality(LastKnown(p.executionId, FAILED))
        /\ p.runningNodes = Cardinality(LastKnown(p.executionId, RUNNING))
        /\ p.pendingNodes = totalNodes - p.completedNodes - p.failedNodes - p.runningNodes
        /\ IF totalNodes = 0 THEN IsQuotient(p.progress, 0, 1)
           ELSE IsQuotient(p.progress, p.completedNodes, totalNodes)

\* 10 total nodes, 6 completed, 1 failed and 1 running: progress 0.6 = 6/10
\* and 2 pending nodes
C20_Witness ==
  /\ ProgressReturned
  /\ ret.value.totalNodes = 10
  /\ Cardinality(LastKnown("e1", COMPLETED)) = 6
  /\ Cardinality(LastKnown("e1", FAILED)) = 1
  /\ Cardinality(LastKnown("e1", RUNNING)) = 1
  /\ IsQuotient(ret.value.progress, 6, 10)
  /\ ret.value.progress = [num |-> 3, den |-> 5]
  /\ ret.value.pendingNodes = 2

\* C21: after any updateNodeStatus calls on a monitored execution, with any
\* node ids, getProgress returns a progress between 0 and 1 inclusive and a
\* pendingNodes that is not negative.
C21_ProgressInRange ==
  ProgressReturned =>
    /\ ret.value.progress.num >= 0
    /\ ret.value.progress.num <= ret.value.progress.den
    /\ ret.value.pendingNodes >= 0

\* the time since monitoring of id started
Elapsed(id) == now - mon[id].startTime

\* the estimate e is (elapsed / completed) * (total - completed)
IsClaimedEstimate(e, elapsed, completed, total) ==
  e.defined /\ e.den > 0 /\ e.num * completed = elapsed * (total - completed) * e.den

\* C22 as stated: estimatedTimeRemaining is undefined while no node has
\* completed, and once at least one node has completed it equals
\* (elapsed / completed) * (total - completed).
C22_EstimateOnceCompleted ==
  [][\A id \in ExecIds :
       GetProgress(id) /\ mon[id].active =>
         LET p == ret'.value
         IN  IF p.completedNodes = 0 THEN ~p.estimatedTimeRemaining.defined
             ELSE IsClaimedEstimate(p.estimatedTimeRemaining, Elapsed(id),
                                    p.completedNodes, p.totalNodes)]_vars

\* C22: estimatedTimeRemaining is undefined while no node has completed and
\* when progress has reached 1; with at least one node completed and
\* progress below 1 it equals (elapsed / completed) * (total - completed).
C22_EstimateBelowFullProgress ==
  [][\A id \in ExecIds :
       GetProgress(id) /\ mon[id].active =>
         LET p == ret'.value
         IN  IF p.completedNodes = 0 \/ p.progress.num >= p.progress.den
               THEN ~p.estimatedTimeRemaining.defined
             ELSE IsClaimedEstimate(p.estimatedTimeRemaining, Elapsed(id),
                                    p.completedNodes, p.totalNodes)]_vars

\* one of two nodes has completed after one unit of time: the estimate is
\* (1 / 1) * 1
C22_Witness ==
  /\ ProgressReturned
  /\ ret.value.totalNodes = 2
  /\ ret.value.completedNodes = 1
  /\ Elapsed("e1") = 1
  /\ ret.value.estimatedTimeRemaining = Estimate([num |-> 1, den |-> 1])

\* s is the last entries of t, in the order of t
IsSuffix(s, t) == Len(s) <= Len(t) /\ s = SubSeq(t, Len(t) - Len(s) + 1, Len(t))

\* C23: the log buffer of a monitored execution holds at most 1000 entries,
\* the most recently added ones in insertion order, the oldest being
\* evicted first; getLogs(id, n) with n >= 1 returns the min(n, size) most
\* recent entries in insertion order.
C23_LogBuffer ==
  /\ [](\A id \in ExecIds : mon[id].active => Len(mon[id].logs) <= 1000)
  /\ [][\A id \in ExecIds :
          /\ AddLog(NextLog(id)) /\ mon[id].active =>
               /\ IsSuffix(mon'[id].logs, Append(mon[id].logs, NextLog(id)))
               /\ Len(mon'[id].logs) = Min(Len(mon[id].logs) + 1, 1000)
          /\ \A n \in LogLimits \ {0} :
               GetLogs(id, n) /\ mon[id].active =>
                 /\ IsSuffix(ret'.value, mon[id].logs)
                 /\ Len(ret'.value) = Min(n, Len(mon[id].logs))]_vars

\* 1002 logs were added: the two oldest are gone, and getLogs with limit 2
\* returned the two newest
C23_Witness ==
  /\ mon["e1"].active
  /\ Len(mon["e1"].logs) = 1000
  /\ mon["e1"].logs[1].message = 3
  /\ ret.op = "getLogs"
  /\ ret.limit = 2
  /\ Len(ret.value) = 2
  /\ ret.value[1].message = 1001
  /\ ret.value[2].message = 1002

\* C24: a tick appends one sample and emits one PERFORMANCE_UPDATED event
\* for each execution registered when its turn comes, neither samples nor
\* emits for an execution that was deregistered before or during the tick,
\* and no metrics buffer exceeds 100 samples, however startMonitoring and
\* stopMonitoring are interleaved with the ticks.
C24_SamplerTicks ==
  /\ [](\A id \in TwoExecIds : Len(mon[id].metrics) <= 100)
  /\ [][/\ CollectPerformanceMetrics =>
             /\ Len(emitted') = 1
             /\ emitted'[1].type = PERFORMANCE_UPDATED
             /\ LET id == emitted'[1].executionId
                IN  /\ mon[id].active
                    /\ id \notin sampler.sampled
                    /\ emitted'[1].data = Sample(id)
                    /\ IsSuffix(mon'[id].metrics, Append(mon[id].metrics, Sample(id)))
                    /\ Len(mon'[id].metrics) = Min(Len(mon[id].metrics) + 1, 100)
                    /\ \A j \in TwoExecIds \ {id} : mon'[j] = mon[j]
        /\ SamplerTickEnds =>
             /\ \A id \in TwoExecIds : mon[id].active => id \in sampler.sampled
             /\ mon' = mon /\ emitted' = <<>>]_vars

\* e1, whose buffer was full, has been sampled; then e2 was deregistered
\* in the course of the tick, before its turn
C24_Witness ==
  /\ sampler.running
  /\ sampler.sampled = {"e1"}
  /\ Len(mon["e1"].metrics) = 100
  /\ ret.op = "stopMonitoring"
  /\ ~mon["e2"].active
  /\ Len(emitted) = 1
  /\ emitted[1].executionId = "e2"

(***************************************************************************)
(* Rollback with a failing store write and with node executions recorded   *)
(* by the driver while the hooks are awaited.  records[id] is the record   *)
(* object the cache holds, which rollback and addNodeExecution both get    *)
(* and change in place.                                                    *)
(***************************************************************************)
WriteError == "EIO"

\* the last hook has completed and the record is truncated, paused and
\* noted in place, but the write of save rejects: the catch returns the
\* failure with the ids computed at the start
RollbackFinishFails ==
  /\ rb.pc = "hooks"
  /\ Len(rb.invoked) = Len(rb.nodesToRollback)
  /\ Save(rb.id, RolledBack(records[rb.id], rb.targetNodeIndex))
  /\ ret' = [RollbackFailure(rb.targetNodeId, WriteError)
               EXCEPT !.affectedNodes = rb.affectedNodeIds]
  /\ rb' = NoRollback
  /\ UNCHANGED <<exists, now>>

NextRollbackFaults ==
  (\/ \E id \in ExecIds, targetNodeId \in RecNodeIds : RollbackBegin(id, targetNodeId)
   \/ RollbackHook
   \/ RollbackFinish
   \/ RollbackFinishFails
   \/ \E id \in ExecIds, nodeRecord \in NodeRecords(RecNodeIds) :
        AddNodeExecution(id, nodeRecord) /\ UNCHANGED rb)
    /\ UNCHANGED <<vvars, yvars, rt, mon, emitted>>

\* the node ids recorded before the rollback is called, and their statuses
EarlyNodeIds == {"A", "B"}
EarlyStatuses == {COMPLETED, FAILED}

EarlyNodeLists ==
  UNION {{[i \in 1..Len(ids) |-> [nodeId |-> ids[i], status |-> st[i], logs |-> 0]]
            : st \in [1..Len(ids) -> EarlyStatuses]}
           : ids \in InjectiveSeqs(EarlyNodeIds)}

\* a running execution with some of its nodes recorded and checkpointed
InitRollbackFaults ==
  /\ InitValidator
  /\ InitOthers
  /\ exists = ExecIds
  /\ \E nodes \in EarlyNodeLists, checkpoints \in StoredCheckpointLists :
       records = [id \in ExecIds |-> StoredRecordOf(RUNNING, NoTime, nodes, checkpoints)]
  /\ now = 1
  /\ ret = Void

SpecRollbackFaults == InitRollbackFaults /\ [][NextRollbackFaults]_vars

(***************************************************************************)
(* C30: every rollback result, success or failure, lists in affectedNodes  *)
(* exactly the ids of the node records the call removed from the record,   *)
(* and no id of a node record still present afterwards.                    *)
(***************************************************************************)
C30_AffectedNodesAreTheRemoved ==
  [][(ret'.op = "rollback" /\ rb'.pc = "idle") =>
       \A id \in ExecIds :
         LET before == Range(NodeIdsOf(records[id].nodes))
             after == Range(NodeIdsOf(records'[id].nodes))
         IN  /\ Range(ret'.affectedNodes) = before \ after
             /\ Range(ret'.affectedNodes) \cap after = {}]_vars

\* a rollback ended by the failing write, the ids after the target listed
C30_FailedWriteReached ==
  /\ ret.op = "rollback"
  /\ ~ret.success
  /\ ret.error = WriteError
  /\ ret.affectedNodes # <<>>

(***************************************************************************)
(* The monitor of one execution with listeners and subscribers, any of     *)
(* which may throw                                                         *)
(***************************************************************************)
InitListeners ==
  /\ InitValidator /\ InitRecorder
  /\ rb = NoRollback /\ rt = NoRetry /\ mon = NoMonitor /\ emitted = <<>>
  /\ sampler = NoTick /\ InitStore
  /\ \E registered \in SUBSET ListenerNames :
       \E throwing \in SUBSET registered :
         bus = [registered |-> registered, throwing |-> throwing,
                received |-> NoDelivery]

\* the records monitored: one of a running and one of a completed execution
HeardRecords == {MonitoredRecord(RUNNING, 1), MonitoredRecord(COMPLETED, 1)}

NextListeners ==
  /\ UNCHANGED <<vvars, sampler, zvars, exists, records, now, rb, rt>>
  /\ \E id \in ExecIds :
       \/ \E record \in HeardRecords : StartMonitoringHeard(id, record)
       \/ StopMonitoringHeard(id)
       \/ \E nodeId \in OneNodeId, status \in NodeExecutionStatus :
            UpdateNodeStatusHeard(id, nodeId, status)

SpecListeners == InitListeners /\ [][NextListeners]_vars

\* the listeners and subscribers registered that an event is meant for
Entitled(event) ==
  {l \in bus.registered :
     \/ l \in Range(TypeListeners) /\ event.type = ListenedType
     \/ l \in Range(GenericListeners)
     \/ l \in Range(SubscribersOf(event.executionId))
     \/ l \in Range(SubscribersOf("*"))}

\* l was called with the event
Received(l, event) == event \in Range(bus.received[l])

(***************************************************************************)
(* C25: when a listener throws while handling an event the monitor         *)
(* emitted, every other listener entitled to the event (subscribers of the *)
(* execution id, wildcard subscribers, listeners of the type and of the    *)
(* generic stream) still receives it and the call of the monitor that      *)
(* emitted it completes normally.                                          *)
(***************************************************************************)
C25_ThrowingListenerIsolated ==
  \A i \in DOMAIN emitted :
    (\E l \in bus.throwing : Received(l, emitted[i])) =>
      /\ \A other \in Entitled(emitted[i]) : Received(other, emitted[i])
      /\ ~ret.threw

\* what holds of the subscribers of the broadcaster: one that throws keeps
\* the event from no listener and from no other subscriber, and the call
\* completes
C25_ThrowingSubscriberIsolated ==
  \A i \in DOMAIN emitted :
    ((\E l \in bus.throwing : Received(l, emitted[i]))
       /\ bus.throwing \cap (Range(TypeListeners) \cup Range(GenericListeners)) = {}) =>
      /\ \A other \in Entitled(emitted[i]) : Received(other, emitted[i])
      /\ ~ret.threw

\* an event is handed to those entitled to it only
C25_OnlyEntitledReceive ==
  \A l \in ListenerNames :
    \A k \in DOMAIN bus.received[l] :
      l \in Entitled(bus.received[l][k])

\* a subscriber threw on a node event and everybody else received it
C25_SubscriberThrew ==
  /\ bus.registered = ListenerNames
  /\ bus.throwing = {"s1"}
  /\ Len(emitted) = 2
  /\ emitted[1].type = NODE_COMPLETED
  /\ \A l \in ListenerNames \ {"sx"} : Received(l, emitted[1])

(***************************************************************************)
(* One record saved, read and deleted while records of other executions    *)
(* are saved: h1 saves, h2 and h3 get, h4 deletes                          *)
(***************************************************************************)
\* how many other records are saved at a time: one, or as many as fill the
\* cache next to one key
OtherRuns == {1, maxCacheSize - 1}

\* the records save is called with: built at time 0, trigger.data any value
SavedRecords == {NewStoredRecord(0, 0, data) : data \in AnyValues}

NextStore ==
  /\ UNCHANGED <<vvars, rvars, xvars, sampler, bus, held>>
  /\ \/ \E id \in ExecIds, record \in SavedRecords : Call("h1", "save", id, record)
     \/ \E id \in ExecIds, h \in {"h2", "h3"} : Call(h, "get", id, NoObject)
     \/ \E id \in ExecIds : Call("h4", "delete", id, NoObject)
     \/ \E h \in Slots : ReadDone(h)
     \/ \E h \in Slots : WriteDone(h)
     \/ \E h \in Slots : UnlinkDone(h)
     \/ \E k \in OtherRuns : OtherExecutions(k)

SpecStore == Init /\ [][NextStore]_vars

\* equal in every field except updatedAt
EqualButUpdatedAt(a, b) == [a EXCEPT !.updatedAt = 0] = [b EXCEPT !.updatedAt = 0]

\* the call in slot h returns in this step
Returns(h) == calls[h].pc # "done" /\ calls'[h].pc = "done"

\* the get of slot h was called after save had returned, and delete has not
\* been called
ReadsTheSaved(h) == "h1" \in calls'[h].after /\ calls["h4"].pc = "idle"

\* the get of slot h returns while save has not been called, or was called
\* after a delete had returned that was called after save had returned
ReadsTheAbsent(h) ==
  \/ calls["h1"].pc = "idle"
  \/ "h4" \in calls'[h].after /\ "h1" \in calls["h4"].after

(***************************************************************************)
(* C29: after save(record), get(record.id) returns a value equal to the    *)
(* saved record in every field except updatedAt, whatever other ids were   *)
(* saved, evicted or deleted in between; get of an id never saved, or      *)
(* saved and then deleted, returns null.                                   *)
(***************************************************************************)
C29_ReadAfterWrite ==
  [][\A h \in {"h2", "h3"} :
       Returns(h) =>
         /\ ReadsTheSaved(h) =>
              /\ ~calls'[h].result.isNull
              /\ EqualButUpdatedAt(calls'[h].result.value, calls["h1"].arg)
         /\ ReadsTheAbsent(h) => calls'[h].result.isNull]_vars

\* the same for the records whose values JSON keeps
C29_JsonValuesReadBack ==
  [][\A h \in {"h2", "h3"} :
       Returns(h) =>
         /\ (ReadsTheSaved(h) /\ JsonValue(calls["h1"].arg.data) = calls["h1"].arg.data) =>
              /\ ~calls'[h].result.isNull
              /\ EqualButUpdatedAt(calls'[h].result.value, calls["h1"].arg)
         /\ ReadsTheAbsent(h) => calls'[h].result.isNull]_vars

\* get returns the saved record from its file, the key having been evicted
C29_ReadFromFile ==
  /\ calls["h1"].pc = "done"
  /\ calls["h2"].pc = "done"
  /\ "h1" \in calls["h2"].after
  /\ calls["h2"].ref = NoRef
  /\ heap["h2"] # NoObject
  /\ calls["h4"].pc = "idle"

\* get returns null after the delete
C29_ReadAfterDelete ==
  /\ calls["h2"].pc = "done"
  /\ "h4" \in calls["h2"].after
  /\ "h1" \in calls["h4"].after
  /\ calls["h4"].result.deleted

(***************************************************************************)
(* The controller creating and cancelling one execution: create awaits     *)
(* createExecution (slot h1) and calls startMonitoring with the record     *)
(* object it got; cancel (slots h2 and h4) awaits updateStatus(id,         *)
(* CANCELLED) and calls stopMonitoring, the second cancel being asked for  *)
(* after the first was answered; meanwhile records of other executions are *)
(* saved, and the driver and the sampler call the monitor.  emitted holds  *)
(* the events of the step.                                                 *)
(***************************************************************************)
\* most logs added to the execution, and most ticks of the sampler
MaxCancelCalls == 1

CancelSlots == {"h2", "h4"}

\* the record object r as the monitor reads it
Monitored(r) == MonitoredRecord(heap[r].status, heap[r].stats.totalNodes)

\* updateExecution(record)
UpdateExecution(id, record) ==
  /\ ret' = [op |-> "updateExecution"]
  /\ IF ~mon[id].active
       THEN emitted' = <<>> /\ UNCHANGED mon
     ELSE /\ mon' = [mon EXCEPT ![id].record = record]
          /\ emitted' = <<MonitorEvent(EXECUTION_UPDATED, id, record),
                          MonitorEvent(PROGRESS_UPDATED, id, getProgress(id)')>>

\* a step of the storage in which the monitor is not called
NoMonitorCall == emitted' = <<>> /\ UNCHANGED <<mon, ret, sampler, held>>

\* the entry of the monitor reads the record through the object it holds:
\* a change made to that object in place is a change of entry.record
HeldObjectsChanged ==
  mon' = [id \in DOMAIN mon |->
            IF mon[id].active /\ held[id] # NoRef
              THEN [mon[id] EXCEPT !.record =
                      MonitoredRecord(heap'[held[id]].status,
                                      heap'[held[id]].stats.totalNodes)]
            ELSE mon[id]]

CreateCalled(id) ==
  /\ Call("h1", "save", id, NewStoredRecord(1, now, Undefined))
  /\ NoMonitorCall

CreateReturns ==
  /\ calls["h1"].op = "save"
  /\ WriteDone("h1")
  /\ StartMonitoring(calls["h1"].id, Monitored("h1"))
  /\ held' = [held EXCEPT ![calls["h1"].id] = "h1"]
  /\ UNCHANGED sampler

\* the id of an execution is made up by createExecution: a client knows
\* it once create has answered
Known(id) == calls["h1"].pc = "done" /\ calls["h1"].id = id

CancelCalled(h, id) ==
  /\ Known(id)
  /\ h = "h4" => calls["h2"].pc = "done"
  /\ Call(h, "updateStatus", id, [status |-> CANCELLED])
  /\ HeldObjectsChanged
  /\ emitted' = <<>>
  /\ UNCHANGED <<ret, sampler, held>>

\* updateStatus has returned and stopMonitoring is called
CancelReturns(h) ==
  /\ calls[h].op = "updateStatus"
  /\ WriteDone(h)
  /\ StopMonitoring(calls[h].id)
  /\ Deregistered(calls[h].id)
  /\ held' = [held EXCEPT ![calls[h].id] = NoRef]

\* a read of the file completes; updateStatus throws on null and cancel
\* answers with the error
ReadCompletes(h) == ReadDone(h) /\ NoMonitorCall

OthersCreated(k) == OtherExecutions(k) /\ NoMonitorCall

\* the status endpoint of the controller after its updateStatus and get:
\* updateExecution with the object of the cache
ExecutionUpdated(id) ==
  /\ CacheHas(cache, id)
  /\ UpdateExecution(id, Monitored(CacheGet(cache, id)))
  /\ held' = IF mon[id].active THEN [held EXCEPT ![id] = CacheGet(cache, id)] ELSE held
  /\ UNCHANGED <<disk, cache, heap, calls, sampler>>

NextCancel ==
  /\ UNCHANGED <<vvars, exists, records, now, rb, rt, bus>>
  /\ \/ \E id \in ExecIds : CreateCalled(id)
     \/ CreateReturns
     \/ \E h \in CancelSlots, id \in ExecIds : CancelCalled(h, id)
     \/ \E h \in CancelSlots : CancelReturns(h)
     \/ \E h \in CancelSlots : ReadCompletes(h)
     \/ \E k \in OtherRuns : OthersCreated(k)
     \/ \E id \in ExecIds : ExecutionUpdated(id)
     \/ \E id \in ExecIds, nodeId \in OneNodeId :
          UpdateNodeStatus(id, nodeId, COMPLETED) /\ UNCHANGED <<zvars, sampler>>
     \/ \E id \in ExecIds :
          /\ Len(mon[id].logs) < MaxCancelCalls
          /\ AddLog(NextLog(id))
          /\ UNCHANGED <<zvars, sampler>>
     \/ sampler.ticks < MaxCancelCalls /\ SamplerTick /\ UNCHANGED zvars
     \/ CollectPerformanceMetrics /\ UNCHANGED zvars
     \/ SamplerTickEnds /\ UNCHANGED zvars

SpecCancel == Init /\ [][NextCancel]_vars

\* the event type that goes with a status of the execution
StopEventType(status) ==
  CASE status = COMPLETED -> EXECUTION_COMPLETED
    [] status = FAILED -> EXECUTION_FAILED
    [] status = CANCELLED -> EXECUTION_CANCELLED
    [] OTHER -> EXECUTION_UPDATED

\* stopMonitoring(id) is called in this step, by the cancel of slot h
StopCalled(h, id) ==
  /\ calls[h].op = "updateStatus"
  /\ calls[h].id = id
  /\ Returns(h)
  /\ ~calls'[h].result.threw

(***************************************************************************)
(* C26: startMonitoring emits exactly one EXECUTION_STARTED event;         *)
(* stopMonitoring of a monitored execution emits exactly one event, of the *)
(* type that goes with the status of the record as the recorder stores it  *)
(* at that moment, so that cancel emits EXECUTION_CANCELLED; stopMonitoring*)
(* of an execution that is not monitored emits nothing.                    *)
(***************************************************************************)
C26_StartAndStopEvents ==
  [][\A id \in ExecIds :
       /\ (Returns("h1") /\ calls["h1"].id = id) =>
            /\ Len(emitted') = 1
            /\ emitted'[1].type = EXECUTION_STARTED
            /\ emitted'[1].executionId = id
       /\ \A h \in CancelSlots :
            StopCalled(h, id) =>
              IF mon[id].active
                THEN /\ Len(emitted') = 1
                     /\ emitted'[1].executionId = id
                     /\ emitted'[1].type = StopEventType(Stored(id)'.status)
                     /\ emitted'[1].type = EXECUTION_CANCELLED
              ELSE emitted' = <<>>]_vars

\* the same without the type of the event of stopMonitoring
C26_OneEventEach ==
  [][\A id \in ExecIds :
       /\ (Returns("h1") /\ calls["h1"].id = id) =>
            /\ Len(emitted') = 1
            /\ emitted'[1].type = EXECUTION_STARTED
            /\ emitted'[1].executionId = id
       /\ \A h \in CancelSlots :
            StopCalled(h, id) =>
              IF mon[id].active
                THEN /\ Len(emitted') = 1
                     /\ emitted'[1].executionId = id
                     /\ emitted'[1].type = StopEventType(mon[id].record.status)
              ELSE emitted' = <<>>]_vars

\* a cancel has returned for id
Cancelled(id) ==
  \E h \in CancelSlots :
    /\ calls[h].pc = "done"
    /\ calls[h].id = id
    /\ ~calls[h].result.threw

(***************************************************************************)
(* C27: once an execution has been cancelled (its status set to CANCELLED  *)
(* and stopMonitoring returned), no later updateNodeStatus,                *)
(* updateExecution or addLog call and no sampler tick emits an event that  *)
(* carries its id, until startMonitoring is called for the id again.       *)
(***************************************************************************)
C27_NoEventsAfterCancel ==
  [][\A id \in ExecIds :
       (Cancelled(id) /\ ~mon[id].active /\ ~mon'[id].active) =>
         \A i \in DOMAIN emitted' : emitted'[i].executionId # id]_vars

\* after the cancel the driver has added a log, and nothing was emitted
C27_Witness ==
  /\ Cancelled("e1")
  /\ Stored("e1").status = CANCELLED
  /\ ~mon["e1"].active
  /\ ret.op = "addLog"
  /\ emitted = <<>>

\* after the cancel a tick of the sampler has gone through the keys
C27_TickAfterCancel ==
  /\ Cancelled("e1")
  /\ ~mon["e1"].active
  /\ sampler.ticks > 0
  /\ ~sampler.running
  /\ emitted = <<>>

(***************************************************************************)
(* Two executions and the one cache.  B is the execution e1, created in    *)
(* slot h1; A is the execution created last among the others, whose        *)
(* records are not followed.  The driver of B records the executions of    *)
(* two nodes (slots h2 and h3) without awaiting one before making the      *)
(* other; the driver of A calls updateStatus, addNodeExecution or          *)
(* addCheckpoint for A.                                                    *)
(***************************************************************************)
\* the node each slot of the driver of B records
RecordedBy(h) == IF h = "h2" THEN "A" ELSE "B"

RecordSlots == {"h2", "h3"}

\* createExecution of B
BCreated(id) == Call("h1", "save", id, NewStoredRecord(2, now, Undefined))

\* addNodeExecution(B, nodeRecord) up to its first await
NodeRecorded(h, id) ==
  /\ Known(id)
  /\ Call(h, "addNodeExecution", id,
          [nodeId |-> RecordedBy(h), status |-> COMPLETED, logs |-> 0])

\* the other executions are created, A the last of them; these creations
\* fill the cache and evict nothing
OthersAndACreated(k) ==
  /\ CacheSize(cache) + k = maxCacheSize
  /\ OtherExecutions(k)

\* A is cached, as the last key of the Map
ACached == cache # <<>> /\ cache[Len(cache)].id = ""

\* updateStatus, addNodeExecution or addCheckpoint of A: get finds A in the
\* cache, the object of A is changed, and once the file of A is written
\* save calls updateCache(A, record), in which A keeps its place
OperationOnA ==
  /\ ACached
  /\ cache' = IF CacheSize(cache) >= maxCacheSize THEN DeleteFirst(cache) ELSE cache
  /\ UNCHANGED <<disk, heap, calls>>

\* the steps of the calls for B
StepsOfB ==
  \/ \E id \in ExecIds : BCreated(id)
  \/ \E h \in RecordSlots, id \in ExecIds : NodeRecorded(h, id)
  \/ \E h \in RecordSlots : ReadDone(h)
  \/ \E h \in {"h1"} \cup RecordSlots : WriteDone(h)

NextWithoutA ==
  /\ UNCHANGED <<vvars, rvars, xvars, sampler, bus, held>>
  /\ \/ StepsOfB
     \/ \E k \in OtherRuns : OthersAndACreated(k)

NextIsolation ==
  /\ UNCHANGED <<vvars, rvars, xvars, sampler, bus, held>>
  /\ \/ StepsOfB
     \/ \E k \in OtherRuns : OthersAndACreated(k)
     \/ OperationOnA

SpecIsolation == Init /\ [][NextIsolation]_vars

\* the same executions with nothing done to A
SpecWithoutA == Init /\ [][NextWithoutA]_vars

\* the node execution recorded by the call of slot h is in the record of id
\* as the recorder stores it
HoldsRecorded(id, h) ==
  \E i \in DOMAIN Stored(id).nodes : Stored(id).nodes[i].nodeId = calls[h].arg.nodeId

\* the call of slot h for id has returned
RecordReturned(h, id) ==
  /\ calls[h].pc = "done"
  /\ calls[h].op = "addNodeExecution"
  /\ calls[h].id = id
  /\ ~calls[h].result.threw

(***************************************************************************)
(* C28: whatever is done to A in between, the record the recorder stores   *)
(* for B is what it is when nothing is done to A: it holds the node        *)
(* execution of every addNodeExecution call for B that has returned, and   *)
(* its counter of completed nodes counts them.                             *)
(***************************************************************************)
C28_BAsWithoutA ==
  \A id \in ExecIds :
    /\ \A h \in RecordSlots : RecordReturned(h, id) => HoldsRecorded(id, h)
    /\ (\A h \in RecordSlots : RecordReturned(h, id)) =>
         Stored(id).stats.completedNodes = 2

\* both calls for B have returned after an operation on A had evicted B
C28_BothReturned ==
  /\ \A h \in RecordSlots : RecordReturned(h, "e1")
  /\ "h2" \notin calls["h3"].after
  /\ "h3" \notin calls["h2"].after

(***************************************************************************)
(* The calls that change a record, one after the other, with writes of     *)
(* the storage that fail: h1 creates the execution, the other slots call   *)
(* updateStatus, addNodeExecution or addCheckpoint for it, each once the   *)
(* call before has returned or thrown.                                     *)
(***************************************************************************)
\* fs.writeFile of save rejects: save throws before it reaches updateCache,
\* and updateStatus, addNodeExecution and addCheckpoint, which have no
\* catch, throw to their caller; the file is as it was
WriteFails(h) ==
  LET call == calls[h]
  IN  /\ call.pc = "writing"
      /\ Return(h, call, [NoReturn EXCEPT !.threw = TRUE])
      /\ UNCHANGED <<disk, cache, heap>>

\* no call of the storage is between two awaits
Settled == \A h \in Slots : calls[h].pc \in {"idle", "done"}

ChangeSlots == {"h2", "h3", "h4"}

\* the key of the execution is the oldest of the cache: the creations of
\* other executions followed are those that lead to its eviction
OldestKey == cache # <<>> /\ cache[1].id # ""

\* the arguments of the calls that change the record
ChangeArgs(op) ==
  IF op = "updateStatus" THEN {[status |-> st] : st \in {RUNNING, COMPLETED}}
  ELSE IF op = "addCheckpoint" THEN {[checkpoint |-> nodeId] : nodeId \in OneNodeId}
  ELSE NodeRecords(OneNodeId)

NextWriteFaults ==
  /\ UNCHANGED <<vvars, rvars, xvars, sampler, bus, held>>
  /\ \/ \E id \in ExecIds : Call("h1", "save", id, NewStoredRecord(1, now, "text"))
     \/ \E h \in ChangeSlots, id \in ExecIds, op \in Mutators :
          \E arg \in ChangeArgs(op) :
            Known(id) /\ Settled /\ Call(h, op, id, arg)
     \/ \E h \in ChangeSlots : ReadDone(h)
     \/ \E h \in Slots : WriteDone(h)
     \/ \E h \in ChangeSlots : WriteFails(h)
     \/ \E k \in OtherRuns : Settled /\ OldestKey /\ OtherExecutions(k)

SpecWriteFaults == Init /\ [][NextWriteFaults]_vars

\* the write of the call in slot h fails in this step
FailedWrite(h) ==
  /\ calls[h].pc = "writing"
  /\ calls'[h].pc = "done"
  /\ calls'[h].result.threw

\* the write of the call in slot h succeeds in this step
SucceededWrite(h) ==
  /\ calls[h].pc = "writing"
  /\ calls'[h].pc = "done"
  /\ ~calls'[h].result.threw

(***************************************************************************)
(* C31: when the write of updateStatus, addNodeExecution or addCheckpoint  *)
(* fails, the call throws and the record get(id) returns afterwards is     *)
(* the record as it was last written: nothing of the change is visible.    *)
(***************************************************************************)
C31_FailedWriteLeavesPersisted ==
  [][\A h \in ChangeSlots :
       FailedWrite(h) => Stored(calls[h].id)' = Parse(disk'[calls[h].id])]_vars

\* after a write that succeeded get(id) returns what was written
C31_WrittenIsRead ==
  [][\A h \in Slots :
       SucceededWrite(h) => Stored(calls[h].id)' = Parse(disk'[calls[h].id])]_vars

\* a call has thrown on its failed write after an earlier change was written
C31_FailedAfterWritten ==
  /\ calls["h2"].pc = "done" /\ ~calls["h2"].result.threw
  /\ calls["h3"].pc = "done" /\ calls["h3"].result.threw
  /\ "h2" \in calls["h3"].after
  /\ calls["h3"].ref # NoRef

(***************************************************************************)
(* RollbackManager.getAvailableRollbackPoints and validateRollback         *)
(***************************************************************************)
NotCompletedReason == "Node not completed successfully"

\* a list that offers every checkpoint whose node has a record
getAvailableRollbackPointsOfRecorded(record) ==
  [i \in 1..Len(record.checkpoints) |->
     LET found == FindIndex(record.nodes, record.checkpoints[i].nodeId)
     IN  [nodeId |-> record.checkpoints[i].nodeId,
          timestamp |-> record.checkpoints[i].timestamp,
          canRollback |-> found >= 1,
          reason |-> IF found >= 1 THEN "" ELSE NotCompletedReason]]

\* the list built by the loop over record.checkpoints: node is the first
\* record of the checkpoint's node id, undefined if there is none
getAvailableRollbackPoints(record) ==
  [i \in 1..Len(record.checkpoints) |->
     LET found == FindIndex(record.nodes, record.checkpoints[i].nodeId)
         completed == found >= 1 /\ record.nodes[found].status = COMPLETED
     IN  [nodeId |-> record.checkpoints[i].nodeId,
          timestamp |-> record.checkpoints[i].timestamp,
          canRollback |-> completed,
          reason |-> IF completed THEN "" ELSE NotCompletedReason]]

\* an id no execution was created with
UnknownId == "e0"

GetAvailableRollbackPoints(id) ==
  /\ ret' = [op |-> "getAvailableRollbackPoints", id |-> id,
             points |-> IF id \notin exists THEN <<>>
                        ELSE getAvailableRollbackPoints(records[id])]
  /\ UNCHANGED <<exists, records, now>>

\* the nodes of the workflow whose nodeType is 'external-api', 'email' or
\* 'notification', and those whose outputs have committed: true
SideEffectNodes == {"B"}
CommittedNodes == {"C"}

SideEffectWarning == "may have external side effects that cannot be rolled back"
CommittedWarning == "has committed transactions that may be difficult to rollback"

\* the warnings pushed by the loop over the node records from index i on
RECURSIVE WarningsFrom(_, _)
WarningsFrom(nodes, i) ==
  IF i > Len(nodes) THEN <<>>
  ELSE (IF nodes[i].nodeId \in SideEffectNodes
          THEN <<[node |-> nodes[i].nodeId, warning |-> SideEffectWarning]>> ELSE <<>>)
       \o (IF nodes[i].nodeId \in CommittedNodes
             THEN <<[node |-> nodes[i].nodeId, warning |-> CommittedWarning]>> ELSE <<>>)
       \o WarningsFrom(nodes, i + 1)

\* what validateRollback returns for a record that was found
validateRollback(record, targetNodeId) ==
  LET targetIndex == FindIndex(record.nodes, targetNodeId)
  IN  IF targetIndex = 0
        THEN [safe |-> FALSE, warnings |-> <<[node |-> "", warning |-> "Target node not found"]>>]
      ELSE LET warnings == WarningsFrom(record.nodes, targetIndex + 1)
           IN  [safe |-> Len(warnings) = 0, warnings |-> warnings]

\* a validation that pauses the execution it was asked about
ValidateRollbackPausing(id, targetNodeId) ==
  /\ ret' = [op |-> "validateRollback", id |-> id, targetNodeId |-> targetNodeId,
             result |-> [safe |-> FALSE, warnings |-> <<>>]]
  /\ records' = [r \in DOMAIN records |->
                   IF r = id THEN [records[r] EXCEPT !.status = PAUSED] ELSE records[r]]
  /\ UNCHANGED <<exists, now>>

ValidateRollback(id, targetNodeId) ==
  /\ ret' = [op |-> "validateRollback", id |-> id, targetNodeId |-> targetNodeId,
             result |-> IF id \notin exists
                          THEN [safe |-> FALSE,
                                warnings |-> <<[node |-> "",
                                                warning |-> "Execution record not found"]>>]
                        ELSE validateRollback(records[id], targetNodeId)]
  /\ UNCHANGED <<exists, records, now>>

\* a running execution with any node records and checkpoints
InitRollbackPoints ==
  /\ InitValidator
  /\ InitOthers
  /\ exists = ExecIds
  /\ \E nodes \in StoredNodeLists, checkpoints \in StoredCheckpointLists :
       records = [id \in ExecIds |-> StoredRecordOf(RUNNING, NoTime, nodes, checkpoints)]
  /\ now = 1
  /\ ret = Void

\* the points, the validation and the rollback of such a record, before
\* and after rollbacks
NextRollbackPoints ==
  (\/ \E id \in ExecIds \cup {UnknownId} : GetAvailableRollbackPoints(id)
   \/ \E id \in ExecIds \cup {UnknownId}, targetNodeId \in RecNodeIds :
        ValidateRollback(id, targetNodeId)
   \/ \E id \in ExecIds, targetNodeId \in RecNodeIds : Rollback(id, targetNodeId))
    /\ UNCHANGED <<vvars, yvars, xvars>>

SpecRollbackPoints == InitRollbackPoints /\ [][NextRollbackPoints]_vars

\* the node list of the record holds a COMPLETED record of the node
HoldsCompleted(record, nodeId) ==
  \E j \in 1..Len(record.nodes) :
    record.nodes[j].nodeId = nodeId /\ record.nodes[j].status = COMPLETED

(***************************************************************************)
(* C32: listRollbackPoints(id) returns one entry per stored checkpoint, in *)
(* the order of the checkpoints; canRollback of an entry is true exactly   *)
(* when the node list holds a COMPLETED record of the checkpoint's node,   *)
(* and an entry that cannot be rolled back to carries a reason; for an     *)
(* unknown id the list is empty.                                           *)
(***************************************************************************)
C32_RollbackPoints ==
  ret.op = "getAvailableRollbackPoints" =>
    IF ret.id \notin exists THEN ret.points = <<>>
    ELSE LET record == records[ret.id]
         IN  /\ Len(ret.points) = Len(record.checkpoints)
             /\ \A i \in 1..Len(ret.points) :
                  /\ ret.points[i].nodeId = record.checkpoints[i].nodeId
                  /\ ret.points[i].canRollback <=>
                       HoldsCompleted(record, ret.points[i].nodeId)
                  /\ ~ret.points[i].canRollback => ret.points[i].reason # ""

\* a list with a point that can be rolled back to, a point whose node is
\* recorded but not COMPLETED, and, for another record, a point whose node
\* has no record
C32_Witness ==
  /\ ret.op = "getAvailableRollbackPoints"
  /\ ret.id \in exists
  /\ Len(ret.points) = 2
  /\ ret.points[1].canRollback
  /\ ~ret.points[2].canRollback
  /\ FindIndex(records[ret.id].nodes, ret.points[2].nodeId) >= 1

\* the node of a checkpoint was truncated by a rollback
C32_WitnessTruncated ==
  /\ ret.op = "getAvailableRollbackPoints"
  /\ ret.id \in exists
  /\ Len(ret.points) = 2
  /\ ret.points[1].canRollback
  /\ ~ret.points[2].canRollback
  /\ FindIndex(records[ret.id].nodes, ret.points[2].nodeId) = 0
  /\ records[ret.id].nodes[1].logs = 1

\* rollback accepts the target: the record has a checkpoint and a node
\* record of it
Accepted(record, targetNodeId) ==
  HasCheckpoint(record, targetNodeId) /\ FindIndex(record.nodes, targetNodeId) >= 1

(***************************************************************************)
(* C33: validateRollback changes nothing in the execution record, and the  *)
(* outcome of rollback(id, target) is the one the checkpoint and the node  *)
(* list decide (success or failure, the truncated node list, PAUSED, the   *)
(* affected nodes), whether validateRollback reports warnings for the      *)
(* target or none.                                                         *)
(***************************************************************************)
C33_ValidateIsAdvisory ==
  [][/\ ret'.op = "validateRollback" => records' = records
     /\ ret'.op = "rollback" =>
          \A id \in ExecIds :
            LET record == records[id]
                targetNodeId == ret'.rolledBackTo
                targetNodeIndex == FindIndex(record.nodes, targetNodeId)
            IN  \A safe \in {validateRollback(record, targetNodeId).safe} :
                  /\ ret'.success <=> Accepted(record, targetNodeId)
                  /\ Accepted(record, targetNodeId) =>
                       /\ records'[id] = RolledBack(record, targetNodeIndex)
                       /\ ret'.affectedNodes = AffectedNodeIds(record, targetNodeIndex)
                  /\ ~Accepted(record, targetNodeId) =>
                       /\ records'[id] = record
                       /\ ret'.affectedNodes = <<>>]_vars

\* a rollback has succeeded over nodes validateRollback warns about
C33_Witness ==
  /\ ret.op = "rollback"
  /\ ret.success
  /\ \E i \in 1..Len(ret.affectedNodes) : ret.affectedNodes[i] \in SideEffectNodes
  /\ \E i \in 1..Len(ret.affectedNodes) : ret.affectedNodes[i] \in CommittedNodes

\* validateRollback has reported warnings
C33_Warned ==
  /\ ret.op = "validateRollback"
  /\ ~ret.result.safe
  /\ Len(ret.result.warnings) = 2
  /\ ret.result.warnings[1].warning # ret.result.warnings[2].warning

(***************************************************************************)
(* C38: rollback(id, target) succeeds only for a target that               *)
(* listRollbackPoints(id) reports with canRollback = true: a target whose  *)
(* node record is not COMPLETED is never truncated to.                     *)
(***************************************************************************)
C38_OnlyOfferedTargets ==
  [][(ret'.op = "rollback" /\ ret'.success) =>
       \A id \in ExecIds :
         LET points == getAvailableRollbackPoints(records[id])
         IN  \E i \in 1..Len(points) :
               points[i].nodeId = ret'.rolledBackTo /\ points[i].canRollback]_vars

\* every rollback to a target the list offers succeeds
C38_OfferedTargetsAccepted ==
  [][ret'.op = "rollback" =>
       \A id \in ExecIds :
         LET points == getAvailableRollbackPoints(records[id])
         IN  (\E i \in 1..Len(points) :
                points[i].nodeId = ret'.rolledBackTo /\ points[i].canRollback)
               => ret'.success]_vars

(***************************************************************************)
(* C34: in every state of an execution record stats.completedNodes,        *)
(* stats.failedNodes and stats.skippedNodes are the numbers of COMPLETED,  *)
(* FAILED and SKIPPED records in the node list, also right after a         *)
(* rollback has truncated the list.                                        *)
(***************************************************************************)
C34_StatsCountNodeList ==
  \A id \in exists :
    /\ records[id].stats.completedNodes = CountStatus(records[id].nodes, COMPLETED)
    /\ records[id].stats.failedNodes = CountStatus(records[id].nodes, FAILED)
    /\ records[id].stats.skippedNodes = CountStatus(records[id].nodes, SKIPPED)

\* the same as long as no rollback has removed a node record: every step
\* that is not a rollback keeps the counters equal to the counts
C34_KeptByTheOtherCalls ==
  [][(C34_StatsCountNodeList /\ ret'.op # "rollback") => C34_StatsCountNodeList']_vars

(***************************************************************************)
(* ResumeManager.resume, one await at a time.  Two resume calls (slots h1  *)
(* and h2 of calls) and updateStatus calls of the driver work on the one   *)
(* record object the cache holds, records[id].  pc of a call is the call   *)
(* it awaits: "canResume", "getResumeContext", "updateStatus" (the get     *)
(* inside it), "save" (the write of its save), and "done" once resume has  *)
(* returned calls[h].result.                                               *)
(***************************************************************************)
ResumeSlots == {"h1", "h2"}

ResumeFailure(error) == [success |-> FALSE, error |-> error, context |-> NoContext]

\* resume(id) is called and awaits canResume
ResumeCalled(h, id) ==
  /\ calls[h].pc = "idle"
  /\ calls' = [calls EXCEPT ![h] = [NoCall EXCEPT !.op = "resume", !.id = id,
                                                   !.pc = "canResume",
                                                   !.after = Returned]]
  /\ UNCHANGED <<exists, records, now, ret>>

\* canResume has read the record: CANNOT_RESUME is returned, or
\* getResumeContext is awaited
ResumeChecked(h) ==
  /\ calls[h].pc = "canResume"
  /\ calls' = [calls EXCEPT ![h] =
                 IF calls[h].id \in exists /\ canResume(records[calls[h].id])
                   THEN [@ EXCEPT !.pc = "getResumeContext"]
                 ELSE [@ EXCEPT !.pc = "done", !.result = ResumeFailure("CANNOT_RESUME")]]
  /\ UNCHANGED <<exists, records, now, ret>>

\* getResumeContext has read the record: NO_CONTEXT is returned for a
\* record that is gone, or updateStatus(id, RUNNING) is awaited
ResumeContextRead(h) ==
  /\ calls[h].pc = "getResumeContext"
  /\ calls' = [calls EXCEPT ![h] =
                 IF calls[h].id \in exists
                   THEN [@ EXCEPT !.pc = "updateStatus",
                                  !.arg = getResumeContext(records[calls[h].id])]
                 ELSE [@ EXCEPT !.pc = "done", !.result = ResumeFailure("NO_CONTEXT")]]
  /\ UNCHANGED <<exists, records, now, ret>>

\* updateStatus has got the record: the status is set on it and the write
\* of save is awaited
ResumeStatusSet(h) ==
  /\ calls[h].pc = "updateStatus"
  /\ calls[h].id \in exists
  /\ Save(calls[h].id, WithStatus(records[calls[h].id], RUNNING, now))
  /\ calls' = [calls EXCEPT ![h].pc = "save"]
  /\ UNCHANGED <<exists, now, ret>>

\* the write has completed and resume returns success with the context
ResumeReturns(h) ==
  /\ calls[h].pc = "save"
  /\ calls' = [calls EXCEPT ![h] =
                 [@ EXCEPT !.pc = "done",
                           !.result = [success |-> TRUE, error |-> "",
                                       context |-> calls[h].arg]]]
  /\ UNCHANGED <<exists, records, now, ret>>

ResumeSteps(h) ==
  \/ \E id \in ExecIds : ResumeCalled(h, id)
  \/ ResumeChecked(h)
  \/ ResumeContextRead(h)
  \/ ResumeStatusSet(h)
  \/ ResumeReturns(h)

\* no resume call is between two awaits
NoResumeUnderWay == \A h \in ResumeSlots : calls[h].pc \in {"idle", "done"}

\* the driver ends the execution
EndingStatuses == {COMPLETED, CANCELLED}

NextResumeRace ==
  /\ UNCHANGED <<vvars, xvars, sampler, bus, disk, cache, heap, held>>
  /\ \/ \E h \in ResumeSlots : ResumeSteps(h)
     \/ \E id \in ExecIds, status \in EndingStatuses :
          UpdateStatus(id, status) /\ UNCHANGED calls

\* the same calls, none made while a resume is under way
NextResumeOneByOne ==
  /\ UNCHANGED <<vvars, xvars, sampler, bus, disk, cache, heap, held>>
  /\ \/ \E h \in ResumeSlots :
          \/ \E id \in ExecIds : NoResumeUnderWay /\ ResumeCalled(h, id)
          \/ ResumeChecked(h)
          \/ ResumeContextRead(h)
          \/ ResumeStatusSet(h)
          \/ ResumeReturns(h)
     \/ \E id \in ExecIds, status \in EndingStatuses :
          NoResumeUnderWay /\ UpdateStatus(id, status) /\ UNCHANGED calls

\* an execution that is paused, failed or running, with some node records
InitResumeRace ==
  /\ InitValidator
  /\ InitOthers
  /\ exists = ExecIds
  /\ \E status \in {PAUSED, FAILED, RUNNING}, nodes \in EarlyNodeLists :
       records = [id \in ExecIds |-> StoredRecordOf(status, NoTime, nodes, <<>>)]
  /\ now = 1
  /\ ret = Void

SpecResumeRace == InitResumeRace /\ [][NextResumeRace]_vars
SpecResumeOneByOne == InitResumeRace /\ [][NextResumeOneByOne]_vars

\* the resume of slot h has returned success
Resumed(h) == calls[h].pc = "done" /\ calls[h].op = "resume" /\ calls[h].result.success

(***************************************************************************)
(* C35: of two resume calls for the same execution interleaved at their    *)
(* awaits at most one returns success, and once updateStatus has made the  *)
(* record COMPLETED or CANCELLED no resume that was under way makes it     *)
(* RUNNING.                                                                *)
(***************************************************************************)
C35_ResumeAtomic ==
  [][/\ ~(Resumed("h1")' /\ Resumed("h2")')
     /\ \A id \in ExecIds :
          records[id].status \in EndingStatuses => records'[id].status # RUNNING]_vars

\* both resume calls have returned, one with success and the other, called
\* while the first was under way, with CANNOT_RESUME
C35_OneOfTwoResumed ==
  /\ Resumed("h1")
  /\ calls["h2"].pc = "done"
  /\ ~calls["h2"].result.success
  /\ "h1" \notin calls["h2"].after

(***************************************************************************)
(* C36: when node executions are recorded while a rollback awaits its      *)
(* hooks, no node record is dropped silently: every node record a step     *)
(* removes from the node list had its hook invoked by the rollback and is  *)
(* listed in the affectedNodes the rollback returns.                       *)
(***************************************************************************)
C36_NoSilentDrop ==
  [][\A id \in ExecIds :
       \A nodeId \in Range(NodeIdsOf(records[id].nodes)) \
                       Range(NodeIdsOf(records'[id].nodes)) :
         /\ nodeId \in Range(rb.invoked)
         /\ ret'.op = "rollback"
         /\ nodeId \in Range(ret'.affectedNodes)]_vars

\* a rollback over B has returned after C had been recorded during its hook
C36_RecordedDuringHooks ==
  /\ ret.op = "rollback"
  /\ ret.success
  /\ ret.rolledBackTo = "A"
  /\ ret.hooks = <<"B">>
  /\ NodeIdsOf(records["e1"].nodes) = <<"A">>
  /\ records["e1"].stats.completedNodes + records["e1"].stats.failedNodes = 3

(***************************************************************************)
(* Rollback whose awaited hook rejects.  The hook is awaited inside the    *)
(* try of rollback, before the record is touched; a rejection of that      *)
(* await leaves the loop and enters the catch.                             *)
(***************************************************************************)
HookError == "hook failed"

\* the hook awaited rejects after the record has been truncated, paused and
\* noted: the order the code does not have
RollbackHookThrowsAfterUpdate ==
  /\ rb.pc = "hooks"
  /\ Save(rb.id, RolledBack(records[rb.id], rb.targetNodeIndex))
  /\ ret' = [RollbackFailure(rb.targetNodeId, HookError)
               EXCEPT !.affectedNodes = rb.affectedNodeIds, !.hooks = rb.invoked]
  /\ rb' = NoRollback
  /\ UNCHANGED <<exists, now>>

\* the hook awaited rejects: the loop is left, the update and the save of
\* the try are skipped and the catch returns the failure with the ids
\* computed at the start and the message of the error
RollbackHookThrows ==
  /\ rb.pc = "hooks"
  /\ ret' = [RollbackFailure(rb.targetNodeId, HookError)
               EXCEPT !.affectedNodes = rb.affectedNodeIds, !.hooks = rb.invoked]
  /\ rb' = NoRollback
  /\ UNCHANGED <<exists, records, now>>

NextRollbackHookFaults ==
  (\/ \E id \in ExecIds, targetNodeId \in RecNodeIds : RollbackBegin(id, targetNodeId)
   \/ RollbackHook
   \/ RollbackHookThrows
   \/ RollbackFinish)
    /\ UNCHANGED <<vvars, yvars, rt, mon, emitted>>

SpecRollbackHookFaults == InitRollbackPoints /\ [][NextRollbackHookFaults]_vars

(***************************************************************************)
(* C37: when a hook throws during a rollback, rollback returns success     *)
(* false and the record is as it was before the call (node list whole,     *)
(* status not set to PAUSED, no note appended, nothing saved), and the     *)
(* hooks of the nodes not yet reached are not invoked.                     *)
(***************************************************************************)
C37_HookThrowLeavesRecord ==
  [][/\ \* from the call to the hook awaited the record is not touched
        rb'.pc = "hooks" => records' = records /\ exists' = exists
     /\ \* the call ends without success while a hook is awaited
        (rb.pc = "hooks" /\ rb'.pc = "idle" /\ ~ret'.success) =>
          /\ ret'.op = "rollback"
          /\ ~ret'.threw
          /\ ret'.error = HookError
          /\ ret'.rolledBackTo = rb.targetNodeId
          /\ records' = records
          /\ exists' = exists
          /\ ret'.hooks = rb.invoked
          /\ IsPrefix(ret'.hooks, rb.nodesToRollback)]_vars

\* rolling back to A over B and C, the hook of C has thrown: the hook of B
\* was not invoked and the record is whole and running
C37_Witness ==
  /\ rb.pc = "idle"
  /\ ret.op = "rollback"
  /\ ~ret.success
  /\ ret.error = HookError
  /\ ret.rolledBackTo = "A"
  /\ ret.affectedNodes = <<"B", "C">>
  /\ ret.hooks = <<"C">>
  /\ NodeIdsOf(records["e1"].nodes) = <<"A", "B", "C">>
  /\ records["e1"].nodes[1].logs = 0
  /\ records["e1"].status = RUNNING

(***************************************************************************)
(* C39: the resume context never tells the caller both to skip and to run  *)
(* the same node: resumeFromNode is empty, or the id of a node record that *)
(* is not COMPLETED and is not in skippedNodes; and resumeFromNode is      *)
(* empty only when no node record is FAILED, RUNNING or PENDING.           *)
(***************************************************************************)
ToBeRun == {FAILED, RUNNING, PENDING}

\* resumeFromNode, when not empty, names a record that is not COMPLETED and
\* that skippedNodes does not list
C39_NeverSkippedAndRun ==
  \A id \in ExecIds :
    ContextReturned(id) =>
      LET nodes == records[id].nodes
          from == ret.context.resumeFromNode
      IN  from # "" =>
            /\ \E i \in 1..Len(nodes) : nodes[i].nodeId = from /\ nodes[i].status # COMPLETED
            /\ from \notin Range(ret.context.skippedNodes)

C39_ResumeFromNodeToRun ==
  /\ C39_NeverSkippedAndRun
  /\ \A id \in ExecIds :
       ContextReturned(id) =>
         LET nodes == records[id].nodes
         IN  ret.context.resumeFromNode = "" =>
               \A i \in 1..Len(nodes) : nodes[i].status \notin ToBeRun

\* a context that names a node to run after skipped ones
C39_RunAfterSkipped ==
  /\ ContextReturned("e1")
  /\ ret.context.skippedNodes = <<"A", "B">>
  /\ ret.context.resumeFromNode = "C"

\* the failed node A is left out: B, recorded after it, is the last COMPLETED
C39_FailedLeftOut ==
  /\ ContextReturned("e1")
  /\ NodeIdsOf(records["e1"].nodes) = <<"A", "B">>
  /\ records["e1"].nodes[1].status = FAILED
  /\ records["e1"].nodes[2].status = COMPLETED
  /\ ret.context.resumeFromNode = ""
  /\ ret.context.skippedNodes = <<"B">>

(***************************************************************************)
(* executeWithRetry with an operation that may reject with any value.  A   *)
(* rejection is caught as error: any; the catch reads error.message for    *)
(* the errors list and, when retryableErrors has entries, calls            *)
(* error.message.includes for each entry until one matches.  Besides the   *)
(* Errors of OperationErrors the operation rejects with null or undefined  *)
(* (nullish) and with values that have no message, with or without a code  *)
(* (a plain object, a string).  A TypeError raised inside the catch leaves *)
(* the call rejected: pc "threw".                                          *)
(***************************************************************************)
RejectionsWithoutMessage ==
  [nullish : {TRUE}, code : {""}] \cup [nullish : {FALSE}, code : {"", "TIMEOUT", "EINVAL"}]

\* the entry that retryableErrors.some looks at first, in both lists of
\* RetryableErrorLists that have entries
FirstRetryable == "TIMEOUT"

\* reading error.message throws for null and undefined; message.includes
\* throws for a value without message unless its code equals the first
\* entry, which ends some() before includes is evaluated
CatchThrows(value, config) ==
  \/ value.nullish
  \/ config.retryableErrors # {} /\ value.code # FirstRetryable

\* the operation awaited rejects with a value that has no message
OperationRejects(value) ==
  /\ rt.pc = "attempt"
  /\ LET pushed == [rt EXCEPT !.errors = Append(@, rt.attempt)]
     IN  rt' = IF value.nullish
                 THEN [rt EXCEPT !.pc = "threw"]
               ELSE IF CatchThrows(value, rt.config)
                 THEN [pushed EXCEPT !.pc = "threw"]
               ELSE IF rt.attempt < rt.config.maxAttempts
                 THEN [pushed EXCEPT !.pc = "sleeping",
                                     !.sleeps = Append(@, calculateDelay(rt.attempt,
                                                                         rt.config))]
               ELSE [pushed EXCEPT !.pc = "returned", !.attempt = rt.attempt + 1,
                                   !.result = Exhausted(rt.config)]

\* the operation awaited settles
OperationSettles ==
  \/ OperationSucceeds
  \/ \E error \in OperationErrors : OperationFails(error)

OperationSettlesAnyhow ==
  \/ OperationSettles
  \/ \E value \in RejectionsWithoutMessage : OperationRejects(value)

RetrySteps(settles) ==
  (\/ \E config \in RetryConfigs : RetryCall(config)
   \/ settles
   \/ SleepEnds)
    /\ UNCHANGED <<vvars, yvars, rvars, rb, mon, emitted>>

NextRetryErrors == RetrySteps(OperationSettles)

NextRetryRejections ==
  (\/ \E config \in RetryConfigs : RetryCall(config)
   \/ OperationSucceeds
   \/ \E error \in OperationErrors : OperationFails(error)
   \/ \E value \in RejectionsWithoutMessage : OperationRejects(value)
   \/ SleepEnds)
    /\ UNCHANGED <<vvars, yvars, rvars, rb, mon, emitted>>

\* every invocation of the operation settles and every backoff timer fires;
\* nothing obliges the caller to make the call
SpecRetryFair ==
  /\ Init
  /\ [][NextRetryRejections]_vars
  /\ WF_vars(OperationSettlesAnyhow /\ UNCHANGED <<vvars, yvars, rvars, rb, mon, emitted>>)
  /\ WF_vars(SleepEnds /\ UNCHANGED <<vvars, yvars, rvars, rb, mon, emitted>>)

\* the same with an operation that rejects with Errors only
SpecRetryErrorsFair ==
  /\ Init
  /\ [][NextRetryErrors]_vars
  /\ WF_vars(OperationSettles /\ UNCHANGED <<vvars, yvars, rvars, rb, mon, emitted>>)
  /\ WF_vars(SleepEnds /\ UNCHANGED <<vvars, yvars, rvars, rb, mon, emitted>>)

\* the result is a success with COMPLETED or a failure with FAILED and one
\* error message for each failed attempt
ResultWellFormed ==
  IF rt.result.success
    THEN /\ rt.result.finalStatus = COMPLETED
         /\ Len(rt.errors) = rt.invocations - 1
    ELSE /\ rt.result.finalStatus = FAILED
         /\ Len(rt.errors) = rt.invocations

(***************************************************************************)
(* C40: executeWithRetry terminates: when every invocation of the          *)
(* operation settles, the call eventually returns a result, a success with *)
(* finalStatus COMPLETED or a failure with finalStatus FAILED and one      *)
(* error message per failed attempt, and it never throws.                  *)
(***************************************************************************)
C40_RetryTerminates ==
  /\ [](rt.pc # "threw")
  /\ [](rt.pc = "returned" => ResultWellFormed)
  /\ (rt.pc \in {"attempt", "sleeping"}) ~> (rt.pc = "returned")

\* a call made is never left without an end: it returns or throws
C40_CallEnds ==
  (rt.pc \in {"attempt", "sleeping"}) ~> (rt.pc \in {"returned", "threw"})

\* the call has thrown at its second attempt
C40_ThrewAfterRetry ==
  /\ rt.pc = "threw"
  /\ rt.invocations = 2

====
